---- MODULE Spec2Model ----
(***************************************************************************)
(* Hotel reservation system: HotelManager, CustomerManager and             *)
(* ReservationManager (reservation_system/managers.py) over the entity     *)
(* classes of reservation_system/models.py and the JSON store of           *)
(* reservation_system/persistence.py.                                      *)
(*                                                                         *)
(* Representation.  A Python str is a sequence of one-character strings,   *)
(* so strip(), split("@") and the "in" test are computed, not assumed.     *)
(* Identifiers are TLA+ strings ("" is the empty identifier).  A dict of   *)
(* entities is a sequence of entity records in insertion order with        *)
(* pairwise distinct identifiers.  A JSON file is [kind, data]: absent,    *)
(* corrupt (unreadable, not JSON, or not a list), undecodable (bytes that  *)
(* are not UTF-8) or a list of records; a record that lacks a key is a     *)
(* TLA+ record without that field, and a list element that is not a JSON   *)
(* object is the record NotADict.  Room                                    *)
(* counts are Python ints and names are Python strs in every input drawn   *)
(* here, so the isinstance tests of validate() are true by construction.   *)
(* An ISO date string "YYYY-MM-DD" is the tuple <<Y, M, D>> of its three   *)
(* numbers; it parses when the three form a calendar date.                 *)
(*                                                                         *)
(* Every public method is one operator that takes the manager(s) it works  *)
(* on and returns them as the call leaves them, with the value returned;   *)
(* a raised ValueError is the return value "ValueError".  One action per   *)
(* method applies the operator to the session's managers and records the   *)
(* call in last; Prompt is the console loop taking the next command.       *)
(***************************************************************************)
EXTENDS Integers, Sequences, FiniteSets, TLC

VARIABLES
    hotels,            \* HotelManager._hotels
    hotelsFile,        \* contents of HotelManager.filepath
    customers,         \* CustomerManager._customers
    customersFile,     \* contents of CustomerManager.filepath
    reservations,      \* ReservationManager._reservations
    reservationsFile,  \* contents of ReservationManager.filepath
    hmAttached,        \* ReservationManager.hotel_manager is not None
    cmAttached,        \* ReservationManager.customer_manager is not None
    nextId,            \* number of identifiers _generate_id has returned, per kind
    cancelled,         \* history: the ids for which cancel_reservation returned True
    hotelsB,           \* _hotels of a second HotelManager on the same filepath
    running,           \* main() is in its while loop
    saving,            \* per thread: where it is in save_json, and the list it writes
    loaded,            \* what the reading thread's load_json call returned
    passed,            \* history: the lists handed to save_json
    last               \* the call that has just returned to the console loop: operation,
                       \* arguments, outcome, HotelManager calls made, and the state it
                       \* started from (op = "idle" at the prompt)

vars == <<hotels, hotelsFile, customers, customersFile, reservations,
          reservationsFile, hmAttached, cmAttached, nextId, cancelled, last,
          hotelsB, running, saving, loaded, passed>>

\* what only the sessions with a second manager, a console or threads change
extra == <<hotelsB, running, saving, loaded, passed>>

-----------------------------------------------------------------------------
(* Bounds of the model *)

MaxRooms == 2      \* largest total_rooms an input carries
MaxHotels == 2     \* hotels created over a run
MaxCustomers == 1  \* customers created over a run
MaxReservations == 2  \* reservations created over a run
MaxRecords == 2    \* records in a file the session finds at its start
MaxEmailLen == 3   \* characters of an email drawn from EmailChars

-----------------------------------------------------------------------------
(* Python str helpers *)

RECURSIVE lstrip(_)
lstrip(s) ==
    IF s # <<>> /\ Head(s) = " " THEN lstrip(Tail(s)) ELSE s

RECURSIVE rstrip(_)
rstrip(s) ==
    IF s # <<>> /\ s[Len(s)] = " "
    THEN rstrip(SubSeq(s, 1, Len(s) - 1))
    ELSE s

strip(s) == rstrip(lstrip(s))

Contains(s, ch) == \E i \in 1..Len(s) : s[i] = ch

\* s.split("@")[-1]: the text after the last "@" (all of s when it has none)
RECURSIVE LastSegment(_, _)
LastSegment(s, ch) ==
    IF ~Contains(s, ch) THEN s
    ELSE LET i == CHOOSE k \in 1..Len(s) : s[k] = ch /\ \A j \in 1..(k - 1) : s[j] # ch
         IN LastSegment(SubSeq(s, i + 1, Len(s)), ch)

-----------------------------------------------------------------------------
(* dict helpers: a dict is a sequence of records, kf names the key field *)

Has(d, kf, id) == \E i \in 1..Len(d) : d[i][kf] = id

Get(d, kf, id) == d[CHOOSE i \in 1..Len(d) : d[i][kf] = id]

\* d[rec[kf]] = rec: an existing key keeps its position, a new key is appended
DictSet(d, kf, rec) ==
    IF Has(d, kf, rec[kf])
    THEN [i \in 1..Len(d) |-> IF d[i][kf] = rec[kf] THEN rec ELSE d[i]]
    ELSE Append(d, rec)

\* del d[id]
DictDel(d, kf, id) == SelectSeq(d, LAMBDA r : r[kf] # id)

-----------------------------------------------------------------------------
(* persistence.py *)

AbsentFile == [kind |-> "absent", data |-> <<>>]
\* open() fails with OSError, json.load fails with JSONDecodeError, or the
\* document is not a list
CorruptFile == [kind |-> "corrupt", data |-> <<>>]
\* the bytes are not UTF-8: reading them raises UnicodeDecodeError, a
\* ValueError that is neither JSONDecodeError nor OSError
UndecodableFile == [kind |-> "undecodable", data |-> <<>>]
\* a file while a save_json is under way or after two of them overlapped:
\* just opened with mode "w" (empty), holding the first part of the text,
\* or holding one text written over another; none of them parses
WritingFile(kind) == [kind |-> kind, data |-> <<>>]

ListFile(records) == [kind |-> "list", data |-> records]

\* an element of a JSON list that is not an object (a number, string, null
\* or list)
NotADict == [json |-> "number"]
IsDict(data) == "json" \notin DOMAIN data

\* the exception load_json lets through ("None": it returns)
load_json_raises(file) ==
    IF file.kind = "undecodable" THEN "UnicodeDecodeError" ELSE "None"

\* load_json, when it returns: [] for a missing file, unreadable or invalid
\* JSON, or a non-list
load_json(file) == IF file.kind = "list" THEN file.data ELSE <<>>

\* save_json: the file becomes the list handed in
save_json(data) == ListFile(data)

-----------------------------------------------------------------------------
(* models.py: Hotel *)

\* _generate_id: uuid4().hex[:12], a value no earlier call returned; the n-th
\* identifier of a kind is the n-th entry of that kind's pool
IdPool ==
    [hotel |-> <<"h1", "h2", "h3", "h4">>,
     customer |-> <<"c1", "c2", "c3", "c4">>,
     reservation |-> <<"r1", "r2", "r3", "r4">>]

\* mutant: the identifier is computed once (a default evaluated at class
\* definition instead of a default_factory)
_generate_id_once(kind, n) == IdPool[kind][1]

_generate_id(kind, n) == IdPool[kind][n]

\* mutant: the upper limit on rooms_available is not checked
Hotel_validate_no_upper(h) ==
    /\ strip(h.name) # <<>>
    /\ strip(h.address) # <<>>
    /\ h.total_rooms > 0
    /\ h.rooms_available >= 0

Hotel_validate(h) ==
    /\ strip(h.name) # <<>>
    /\ strip(h.address) # <<>>
    /\ h.total_rooms > 0
    /\ h.rooms_available >= 0
    /\ h.rooms_available <= h.total_rooms

\* Hotel.__init__ + __post_init__: the entity, and whether validate() passed
Hotel_new(hotel_id, name, address, total_rooms, rooms_available) ==
    LET h == [hotel_id |-> hotel_id, name |-> name, address |-> address,
              total_rooms |-> total_rooms,
              rooms_available |-> IF rooms_available = -1 THEN total_rooms
                                  ELSE rooms_available]
    IN [ok |-> Hotel_validate(h), obj |-> h]

\* mutant: rooms_available is left out of the record written
Hotel_to_dict_no_available(h) ==
    [name |-> h.name, address |-> h.address, total_rooms |-> h.total_rooms,
     hotel_id |-> h.hotel_id]

Hotel_to_dict(h) ==
    [name |-> h.name, address |-> h.address, total_rooms |-> h.total_rooms,
     rooms_available |-> h.rooms_available, hotel_id |-> h.hotel_id]

\* mutant: from_dict does not read rooms_available: every hotel loads with
\* all its rooms available
Hotel_from_dict_all_available(data) ==
    IF ~IsDict(data) THEN [ok |-> FALSE, obj |-> data]
    ELSE IF ~({"name", "address", "total_rooms", "hotel_id"} \subseteq DOMAIN data)
    THEN [ok |-> FALSE, obj |-> data]
    ELSE Hotel_new(data.hotel_id, data.name, data.address, data.total_rooms,
                   data.total_rooms)

\* from_dict: data.keys() raises AttributeError when data is not a dict;
\* a missing key and a failed validate() raise ValueError (ok = FALSE)
Hotel_from_dict(data) ==
    IF ~IsDict(data) THEN [ok |-> FALSE, obj |-> data]
    ELSE IF ~({"name", "address", "total_rooms", "hotel_id"} \subseteq DOMAIN data)
    THEN [ok |-> FALSE, obj |-> data]
    ELSE Hotel_new(data.hotel_id, data.name, data.address, data.total_rooms,
                   IF "rooms_available" \in DOMAIN data THEN data.rooms_available
                   ELSE data.total_rooms)

-----------------------------------------------------------------------------
(* managers.py: HotelManager.  A manager value is [mem, file]: the dict   *)
(* it holds and the contents of its file.  Every method returns the        *)
(* manager after the call (m) and the value returned (ret).                *)

\* the loop of _load: a record whose from_dict raises ValueError, KeyError or
\* TypeError is skipped
RECURSIVE HotelLoadFrom(_, _)
HotelLoadFrom(records, mem) ==
    IF records = <<>> THEN mem
    ELSE LET r == Hotel_from_dict(Head(records))
         IN HotelLoadFrom(Tail(records),
                          IF r.ok THEN DictSet(mem, "hotel_id", r.obj) ELSE mem)

\* the exception _load lets through: load_json's, or the AttributeError of
\* from_dict on a record that is not a dict, which the except clause of the
\* loop does not name
LoadRaises(file) ==
    IF load_json_raises(file) # "None" THEN load_json_raises(file)
    ELSE IF \E i \in 1..Len(load_json(file)) : ~IsDict(load_json(file)[i])
    THEN "AttributeError"
    ELSE "None"

\* mutant: the reload does nothing, memory stays as it is
HotelManager_load_noop(m) == m

HotelManager_load(m) ==
    [m EXCEPT !.mem = HotelLoadFrom(load_json(m.file), <<>>)]

\* mutant: the save keeps the records of the file that the dict does not
\* hold (a merge)
HotelManager_save_merge(m) ==
    [m EXCEPT !.file = save_json(
        [i \in 1..Len(m.mem) |-> Hotel_to_dict(m.mem[i])] \o
        SelectSeq(load_json(m.file), LAMBDA rec : ~Has(m.mem, "hotel_id", rec.hotel_id)))]

HotelManager_save(m) ==
    [m EXCEPT !.file = save_json([i \in 1..Len(m.mem) |-> Hotel_to_dict(m.mem[i])])]

get_hotel(m, hotel_id) == Has(m.mem, "hotel_id", hotel_id)

\* mutant: the ValueError of Hotel() is caught and None returned
create_hotel_swallow(m, name, address, total_rooms, new_id) ==
    LET r == Hotel_new(new_id, name, address, total_rooms, -1)
    IN IF ~r.ok THEN [m |-> m, ret |-> "None", obj |-> r.obj]
       ELSE [m |-> HotelManager_save([m EXCEPT !.mem = DictSet(m.mem, "hotel_id", r.obj)]),
             ret |-> "Hotel", obj |-> r.obj]

\* ret: "Hotel" (the new hotel is obj) or "ValueError" (raised by Hotel())
create_hotel(m, name, address, total_rooms, new_id) ==
    LET r == Hotel_new(new_id, name, address, total_rooms, -1)
    IN IF ~r.ok THEN [m |-> m, ret |-> "ValueError", obj |-> r.obj]
       ELSE [m |-> HotelManager_save([m EXCEPT !.mem = DictSet(m.mem, "hotel_id", r.obj)]),
             ret |-> "Hotel", obj |-> r.obj]

\* mutant: the hotel is removed from the dict but the file is not rewritten
delete_hotel_no_save(m, hotel_id) ==
    IF ~Has(m.mem, "hotel_id", hotel_id) THEN [m |-> m, ret |-> FALSE]
    ELSE [m |-> [m EXCEPT !.mem = DictDel(m.mem, "hotel_id", hotel_id)], ret |-> TRUE]

delete_hotel(m, hotel_id) ==
    IF ~Has(m.mem, "hotel_id", hotel_id) THEN [m |-> m, ret |-> FALSE]
    ELSE [m |-> HotelManager_save([m EXCEPT !.mem = DictDel(m.mem, "hotel_id", hotel_id)]),
          ret |-> TRUE]

HotelAllowed == {"name", "address", "total_rooms", "rooms_available"}

\* the setattr loop: only allowed keys are applied
ApplyKwargs(obj, kwargs, allowed) ==
    [f \in DOMAIN obj |-> IF f \in (DOMAIN kwargs) \cap allowed THEN kwargs[f] ELSE obj[f]]

\* ret: "Hotel" or "None"; "TypeError" when kwargs names the parameter
\* hotel_id a second time (the call does not reach the body)
modify_hotel(m, hotel_id, kwargs) ==
    IF "hotel_id" \in DOMAIN kwargs THEN [m |-> m, ret |-> "TypeError"]
    ELSE IF ~get_hotel(m, hotel_id) THEN [m |-> m, ret |-> "None"]
    ELSE LET hotel == ApplyKwargs(Get(m.mem, "hotel_id", hotel_id), kwargs, HotelAllowed)
             mutated == [m EXCEPT !.mem = DictSet(m.mem, "hotel_id", hotel)]
         IN IF ~Hotel_validate(hotel)
            THEN [m |-> HotelManager_load(mutated), ret |-> "None"]
            ELSE [m |-> HotelManager_save(mutated), ret |-> "Hotel"]

\* mutant: True is returned without taking a room
reserve_room_no_decrement(m, hotel_id) ==
    IF ~get_hotel(m, hotel_id) THEN [m |-> m, ret |-> FALSE]
    ELSE LET hotel == Get(m.mem, "hotel_id", hotel_id)
         IN IF hotel.rooms_available <= 0 THEN [m |-> m, ret |-> FALSE]
            ELSE [m |-> HotelManager_save(m), ret |-> TRUE]

\* mutant: the availability test is missing
reserve_room_unchecked(m, hotel_id) ==
    IF ~get_hotel(m, hotel_id) THEN [m |-> m, ret |-> FALSE]
    ELSE LET hotel == Get(m.mem, "hotel_id", hotel_id)
         IN [m |-> HotelManager_save(
                     [m EXCEPT !.mem = DictSet(m.mem, "hotel_id",
                         [hotel EXCEPT !.rooms_available = hotel.rooms_available - 1])]),
             ret |-> TRUE]

reserve_room_every_hotel(m, hotel_id) ==
    IF ~get_hotel(m, hotel_id) THEN [m |-> m, ret |-> FALSE]
    ELSE LET hotel == Get(m.mem, "hotel_id", hotel_id)
         IN IF hotel.rooms_available <= 0 THEN [m |-> m, ret |-> FALSE]
            ELSE [m |-> HotelManager_save(
                          [m EXCEPT !.mem = [i \in 1..Len(m.mem) |->
                              IF m.mem[i].rooms_available > 0
                              THEN [m.mem[i] EXCEPT !.rooms_available = @ - 1]
                              ELSE m.mem[i]]]),
                  ret |-> TRUE]

reserve_room(m, hotel_id) ==
    IF ~get_hotel(m, hotel_id) THEN [m |-> m, ret |-> FALSE]
    ELSE LET hotel == Get(m.mem, "hotel_id", hotel_id)
         IN IF hotel.rooms_available <= 0 THEN [m |-> m, ret |-> FALSE]
            ELSE [m |-> HotelManager_save(
                          [m EXCEPT !.mem = DictSet(m.mem, "hotel_id",
                              [hotel EXCEPT !.rooms_available = hotel.rooms_available - 1])]),
                  ret |-> TRUE]

\* mutant: True is returned without giving the room back
cancel_room_no_increment(m, hotel_id) ==
    IF ~get_hotel(m, hotel_id) THEN [m |-> m, ret |-> FALSE]
    ELSE LET hotel == Get(m.mem, "hotel_id", hotel_id)
         IN IF hotel.rooms_available >= hotel.total_rooms THEN [m |-> m, ret |-> FALSE]
            ELSE [m |-> HotelManager_save(m), ret |-> TRUE]

\* mutant: the capacity test is missing
cancel_room_unguarded(m, hotel_id) ==
    IF ~get_hotel(m, hotel_id) THEN [m |-> m, ret |-> FALSE]
    ELSE LET hotel == Get(m.mem, "hotel_id", hotel_id)
         IN [m |-> HotelManager_save(
                     [m EXCEPT !.mem = DictSet(m.mem, "hotel_id",
                         [hotel EXCEPT !.rooms_available = hotel.rooms_available + 1])]),
             ret |-> TRUE]

cancel_room(m, hotel_id) ==
    IF ~get_hotel(m, hotel_id) THEN [m |-> m, ret |-> FALSE]
    ELSE LET hotel == Get(m.mem, "hotel_id", hotel_id)
         IN IF hotel.rooms_available >= hotel.total_rooms THEN [m |-> m, ret |-> FALSE]
            ELSE [m |-> HotelManager_save(
                          [m EXCEPT !.mem = DictSet(m.mem, "hotel_id",
                              [hotel EXCEPT !.rooms_available = hotel.rooms_available + 1])]),
                  ret |-> TRUE]

-----------------------------------------------------------------------------
(* models.py: Customer *)

Customer_validate(c) ==
    /\ strip(c.name) # <<>>
    /\ Contains(c.email, "@")
    /\ Contains(LastSegment(c.email, "@"), ".")

Customer_new(customer_id, name, email) ==
    LET c == [customer_id |-> customer_id, name |-> name, email |-> email]
    IN [ok |-> Customer_validate(c), obj |-> c]

Customer_to_dict(c) ==
    [name |-> c.name, email |-> c.email, customer_id |-> c.customer_id]

Customer_from_dict(data) ==
    IF ~IsDict(data) THEN [ok |-> FALSE, obj |-> data]
    ELSE IF ~({"name", "email", "customer_id"} \subseteq DOMAIN data)
    THEN [ok |-> FALSE, obj |-> data]
    ELSE Customer_new(data.customer_id, data.name, data.email)

-----------------------------------------------------------------------------
(* models.py: Reservation *)

\* date.fromisoformat succeeds
IsIsoDate(d) ==
    LET leap == (d[1] % 4 = 0 /\ d[1] % 100 # 0) \/ d[1] % 400 = 0
        days == IF d[2] = 2 THEN (IF leap THEN 29 ELSE 28)
                ELSE IF d[2] \in {4, 6, 9, 11} THEN 30 ELSE 31
    IN /\ d[1] \in 1..9999
       /\ d[2] \in 1..12
       /\ d[3] \in 1..days

\* co <= ci on two dates
DateLE(co, ci) ==
    \/ co[1] < ci[1]
    \/ co[1] = ci[1] /\ co[2] < ci[2]
    \/ co[1] = ci[1] /\ co[2] = ci[2] /\ co[3] <= ci[3]

\* mutant: the order of the two dates is not checked
Reservation_validate_no_order(r) ==
    /\ r.customer_id # ""
    /\ r.hotel_id # ""
    /\ IsIsoDate(r.check_in)
    /\ IsIsoDate(r.check_out)

Reservation_validate(r) ==
    /\ r.customer_id # ""
    /\ r.hotel_id # ""
    /\ IsIsoDate(r.check_in)
    /\ IsIsoDate(r.check_out)
    /\ ~DateLE(r.check_out, r.check_in)

Reservation_new(reservation_id, customer_id, hotel_id, check_in, check_out) ==
    LET r == [reservation_id |-> reservation_id, customer_id |-> customer_id,
              hotel_id |-> hotel_id, check_in |-> check_in, check_out |-> check_out]
    IN [ok |-> Reservation_validate(r), obj |-> r]

Reservation_to_dict(r) ==
    [customer_id |-> r.customer_id, hotel_id |-> r.hotel_id, check_in |-> r.check_in,
     check_out |-> r.check_out, reservation_id |-> r.reservation_id]

Reservation_from_dict(data) ==
    IF ~IsDict(data) THEN [ok |-> FALSE, obj |-> data]
    ELSE IF ~({"customer_id", "hotel_id", "check_in", "check_out", "reservation_id"}
           \subseteq DOMAIN data)
    THEN [ok |-> FALSE, obj |-> data]
    ELSE Reservation_new(data.reservation_id, data.customer_id, data.hotel_id,
                         data.check_in, data.check_out)

-----------------------------------------------------------------------------
(* managers.py: CustomerManager *)

RECURSIVE CustomerLoadFrom(_, _)
CustomerLoadFrom(records, mem) ==
    IF records = <<>> THEN mem
    ELSE LET r == Customer_from_dict(Head(records))
         IN CustomerLoadFrom(Tail(records),
                             IF r.ok THEN DictSet(mem, "customer_id", r.obj) ELSE mem)

CustomerManager_load(m) ==
    [m EXCEPT !.mem = CustomerLoadFrom(load_json(m.file), <<>>)]

CustomerManager_save(m) ==
    [m EXCEPT !.file = save_json([i \in 1..Len(m.mem) |-> Customer_to_dict(m.mem[i])])]

get_customer(m, customer_id) == Has(m.mem, "customer_id", customer_id)

\* ret: "Customer" or "ValueError" (raised by Customer())
create_customer(m, name, email, new_id) ==
    LET r == Customer_new(new_id, name, email)
    IN IF ~r.ok THEN [m |-> m, ret |-> "ValueError", obj |-> r.obj]
       ELSE [m |-> CustomerManager_save(
                     [m EXCEPT !.mem = DictSet(m.mem, "customer_id", r.obj)]),
             ret |-> "Customer", obj |-> r.obj]

delete_customer(m, customer_id) ==
    IF ~Has(m.mem, "customer_id", customer_id) THEN [m |-> m, ret |-> FALSE]
    ELSE [m |-> CustomerManager_save(
                  [m EXCEPT !.mem = DictDel(m.mem, "customer_id", customer_id)]),
          ret |-> TRUE]

CustomerAllowed == {"name", "email"}

\* ret: "Customer" or "None"; "TypeError" when kwargs names the parameter
\* customer_id a second time
modify_customer(m, customer_id, kwargs) ==
    IF "customer_id" \in DOMAIN kwargs THEN [m |-> m, ret |-> "TypeError"]
    ELSE IF ~get_customer(m, customer_id) THEN [m |-> m, ret |-> "None"]
    ELSE LET customer == ApplyKwargs(Get(m.mem, "customer_id", customer_id), kwargs,
                                     CustomerAllowed)
             mutated == [m EXCEPT !.mem = DictSet(m.mem, "customer_id", customer)]
         IN IF ~Customer_validate(customer)
            THEN [m |-> CustomerManager_load(mutated), ret |-> "None"]
            ELSE [m |-> CustomerManager_save(mutated), ret |-> "Customer"]

-----------------------------------------------------------------------------
(* managers.py: ReservationManager.  hm and cm are the attached managers;  *)
(* hmAtt / cmAtt say whether hotel_manager / customer_manager is not None. *)
(* calls lists the HotelManager calls made, each with what it returned.    *)

RECURSIVE ReservationLoadFrom(_, _)
ReservationLoadFrom(records, mem) ==
    IF records = <<>> THEN mem
    ELSE LET r == Reservation_from_dict(Head(records))
         IN ReservationLoadFrom(Tail(records),
                                IF r.ok THEN DictSet(mem, "reservation_id", r.obj) ELSE mem)

ReservationManager_load(m) ==
    [m EXCEPT !.mem = ReservationLoadFrom(load_json(m.file), <<>>)]

ReservationManager_save(m) ==
    [m EXCEPT !.file = save_json([i \in 1..Len(m.mem) |-> Reservation_to_dict(m.mem[i])])]

\* mutant: the room is reserved before the customer is looked up
create_reservation_room_first(rm, hm, cm, hmAtt, cmAtt, customer_id, hotel_id, check_in, check_out, new_id) ==
    IF hmAtt /\ ~get_hotel(hm, hotel_id)
    THEN [rm |-> rm, hm |-> hm, ret |-> "None", calls |-> <<>>]
    ELSE LET reserved == IF hmAtt THEN reserve_room(hm, hotel_id)
                         ELSE [m |-> hm, ret |-> TRUE]
             calls1 == IF hmAtt THEN <<[fn |-> "reserve_room", ret |-> reserved.ret]>>
                       ELSE <<>>
         IN IF ~reserved.ret \/ (cmAtt /\ ~get_customer(cm, customer_id))
            THEN [rm |-> rm, hm |-> reserved.m, ret |-> "None", calls |-> calls1]
            ELSE LET r == Reservation_new(new_id, customer_id, hotel_id, check_in, check_out)
                     released == IF hmAtt THEN cancel_room(reserved.m, hotel_id)
                                 ELSE [m |-> reserved.m, ret |-> TRUE]
                 IN IF ~r.ok
                    THEN [rm |-> rm, hm |-> released.m, ret |-> "None",
                          calls |-> IF hmAtt
                                    THEN Append(calls1, [fn |-> "cancel_room",
                                                         ret |-> released.ret])
                                    ELSE calls1]
                    ELSE [rm |-> ReservationManager_save(
                                   [rm EXCEPT !.mem = DictSet(rm.mem, "reservation_id", r.obj)]),
                          hm |-> reserved.m, ret |-> "Reservation", calls |-> calls1]

\* mutant: the registries are consulted whether or not they were handed to
\* the coordinator
create_reservation_always_checks(rm, hm, cm, hmAtt, cmAtt, customer_id, hotel_id, check_in, check_out, new_id) ==
    IF ~get_customer(cm, customer_id) \/ ~get_hotel(hm, hotel_id)
    THEN [rm |-> rm, hm |-> hm, ret |-> "None", calls |-> <<>>]
    ELSE LET reserved == reserve_room(hm, hotel_id)
             calls1 == <<[fn |-> "reserve_room", ret |-> reserved.ret]>>
         IN IF ~reserved.ret
            THEN [rm |-> rm, hm |-> reserved.m, ret |-> "None", calls |-> calls1]
            ELSE LET r == Reservation_new(new_id, customer_id, hotel_id, check_in, check_out)
                     released == cancel_room(reserved.m, hotel_id)
                 IN IF ~r.ok
                    THEN [rm |-> rm, hm |-> released.m, ret |-> "None",
                          calls |-> Append(calls1, [fn |-> "cancel_room",
                                                    ret |-> released.ret])]
                    ELSE [rm |-> ReservationManager_save(
                                   [rm EXCEPT !.mem = DictSet(rm.mem, "reservation_id", r.obj)]),
                          hm |-> reserved.m, ret |-> "Reservation", calls |-> calls1]

\* mutant: a Reservation that fails validation does not give the room back
create_reservation_no_release(rm, hm, cm, hmAtt, cmAtt, customer_id, hotel_id, check_in, check_out, new_id) ==
    IF cmAtt /\ ~get_customer(cm, customer_id)
    THEN [rm |-> rm, hm |-> hm, ret |-> "None", calls |-> <<>>]
    ELSE IF hmAtt /\ ~get_hotel(hm, hotel_id)
    THEN [rm |-> rm, hm |-> hm, ret |-> "None", calls |-> <<>>]
    ELSE LET reserved == IF hmAtt THEN reserve_room(hm, hotel_id)
                         ELSE [m |-> hm, ret |-> TRUE]
             calls1 == IF hmAtt THEN <<[fn |-> "reserve_room", ret |-> reserved.ret]>>
                       ELSE <<>>
         IN IF ~reserved.ret
            THEN [rm |-> rm, hm |-> reserved.m, ret |-> "None", calls |-> calls1]
            ELSE LET r == Reservation_new(new_id, customer_id, hotel_id, check_in, check_out)
                 IN IF ~r.ok
                    THEN [rm |-> rm, hm |-> reserved.m, ret |-> "None", calls |-> calls1]
                    ELSE [rm |-> ReservationManager_save(
                                   [rm EXCEPT !.mem = DictSet(rm.mem, "reservation_id", r.obj)]),
                          hm |-> reserved.m, ret |-> "Reservation", calls |-> calls1]

\* ret: "Reservation" or "None"
create_reservation(rm, hm, cm, hmAtt, cmAtt, customer_id, hotel_id, check_in, check_out, new_id) ==
    IF cmAtt /\ ~get_customer(cm, customer_id)
    THEN [rm |-> rm, hm |-> hm, ret |-> "None", calls |-> <<>>]
    ELSE IF hmAtt /\ ~get_hotel(hm, hotel_id)
    THEN [rm |-> rm, hm |-> hm, ret |-> "None", calls |-> <<>>]
    ELSE LET reserved == IF hmAtt THEN reserve_room(hm, hotel_id)
                         ELSE [m |-> hm, ret |-> TRUE]
             calls1 == IF hmAtt THEN <<[fn |-> "reserve_room", ret |-> reserved.ret]>>
                       ELSE <<>>
         IN IF ~reserved.ret
            THEN [rm |-> rm, hm |-> reserved.m, ret |-> "None", calls |-> calls1]
            ELSE LET r == Reservation_new(new_id, customer_id, hotel_id, check_in, check_out)
                     released == IF hmAtt THEN cancel_room(reserved.m, hotel_id)
                                 ELSE [m |-> reserved.m, ret |-> TRUE]
                 IN IF ~r.ok
                    THEN [rm |-> rm, hm |-> released.m, ret |-> "None",
                          calls |-> IF hmAtt
                                    THEN Append(calls1, [fn |-> "cancel_room",
                                                         ret |-> released.ret])
                                    ELSE calls1]
                    ELSE [rm |-> ReservationManager_save(
                                   [rm EXCEPT !.mem = DictSet(rm.mem, "reservation_id", r.obj)]),
                          hm |-> reserved.m, ret |-> "Reservation", calls |-> calls1]

\* mutant: the reservation is not removed from the dict
cancel_reservation_no_del(rm, hm, hmAtt, reservation_id) ==
    IF ~Has(rm.mem, "reservation_id", reservation_id)
    THEN [rm |-> rm, hm |-> hm, ret |-> FALSE, calls |-> <<>>]
    ELSE LET reservation == Get(rm.mem, "reservation_id", reservation_id)
             released == IF hmAtt THEN cancel_room(hm, reservation.hotel_id)
                         ELSE [m |-> hm, ret |-> TRUE]
         IN [rm |-> ReservationManager_save(rm), hm |-> released.m, ret |-> TRUE,
             calls |-> IF hmAtt THEN <<[fn |-> "cancel_room", ret |-> released.ret]>>
                       ELSE <<>>]

\* mutant: a failed release aborts the cancellation
cancel_reservation_strict(rm, hm, hmAtt, reservation_id) ==
    IF ~Has(rm.mem, "reservation_id", reservation_id)
    THEN [rm |-> rm, hm |-> hm, ret |-> FALSE, calls |-> <<>>]
    ELSE LET reservation == Get(rm.mem, "reservation_id", reservation_id)
             released == IF hmAtt THEN cancel_room(hm, reservation.hotel_id)
                         ELSE [m |-> hm, ret |-> TRUE]
             calls == IF hmAtt THEN <<[fn |-> "cancel_room", ret |-> released.ret]>>
                      ELSE <<>>
         IN IF ~released.ret
            THEN [rm |-> rm, hm |-> released.m, ret |-> FALSE, calls |-> calls]
            ELSE [rm |-> ReservationManager_save(
                           [rm EXCEPT !.mem = DictDel(rm.mem, "reservation_id",
                                                      reservation_id)]),
                  hm |-> released.m, ret |-> TRUE, calls |-> calls]

\* mutant: the reservation is removed without the room being given back
cancel_reservation_keeps_room(rm, hm, hmAtt, reservation_id) ==
    IF ~Has(rm.mem, "reservation_id", reservation_id)
    THEN [rm |-> rm, hm |-> hm, ret |-> FALSE, calls |-> <<>>]
    ELSE [rm |-> ReservationManager_save(
                   [rm EXCEPT !.mem = DictDel(rm.mem, "reservation_id", reservation_id)]),
          hm |-> hm, ret |-> TRUE, calls |-> <<>>]

cancel_reservation(rm, hm, hmAtt, reservation_id) ==
    IF ~Has(rm.mem, "reservation_id", reservation_id)
    THEN [rm |-> rm, hm |-> hm, ret |-> FALSE, calls |-> <<>>]
    ELSE LET reservation == Get(rm.mem, "reservation_id", reservation_id)
             released == IF hmAtt THEN cancel_room(hm, reservation.hotel_id)
                         ELSE [m |-> hm, ret |-> TRUE]
         IN [rm |-> ReservationManager_save(
                      [rm EXCEPT !.mem = DictDel(rm.mem, "reservation_id", reservation_id)]),
             hm |-> released.m, ret |-> TRUE,
             calls |-> IF hmAtt THEN <<[fn |-> "cancel_room", ret |-> released.ret]>>
                       ELSE <<>>]

-----------------------------------------------------------------------------
(* Inputs *)

NameH == <<"H">>
NameN == <<"N">>
Blank == <<" ">>
AddrA == <<"A">>
EmailOk == <<"a", "@", "b", ".", "c">>
EmailNoAt == <<"a", ".", "c">>
EmailNoDot == <<"a", "@", "b">>

Jul1 == <<2026, 7, 1>>
Jul5 == <<2026, 7, 5>>
Feb30 == <<2026, 2, 30>>

\* (check_in, check_out): valid, reversed, equal, unparsable
DatePairs == {<<Jul1, Jul5>>, <<Jul5, Jul1>>, <<Jul1, Jul1>>, <<Jul1, Feb30>>}

\* identifiers a caller passes: every one _generate_id can have returned, and
\* one that names nothing
HotelIds == {IdPool.hotel[i] : i \in 1..MaxHotels} \cup {"nope"}
CustomerIds == {IdPool.customer[i] : i \in 1..MaxCustomers} \cup {"nope"}
ReservationIds == {IdPool.reservation[i] : i \in 1..MaxReservations} \cup {"nope"}

HotelKwargs ==
    {[total_rooms |-> n] : n \in 0..MaxRooms}
    \cup {[rooms_available |-> n] : n \in (-1)..MaxRooms}
    \cup {[name |-> Blank], [zzz |-> 99]}

CustomerKwargs ==
    {[email |-> EmailNoAt], [email |-> EmailNoDot], [name |-> Blank],
     [name |-> NameN, zzz |-> 99]}

-----------------------------------------------------------------------------
(* The system: one console session holding the three managers *)

HM == [mem |-> hotels, file |-> hotelsFile]
CM == [mem |-> customers, file |-> customersFile]
RM == [mem |-> reservations, file |-> reservationsFile]

NoArgs == [hotel_id |-> "", customer_id |-> "", reservation_id |-> ""]

\* the state a call starts from
Snapshot ==
    [hotels |-> hotels, hotelsFile |-> hotelsFile, customers |-> customers,
     customersFile |-> customersFile, reservations |-> reservations,
     reservationsFile |-> reservationsFile, cancelled |-> cancelled]

Idle ==
    [op |-> "idle", ret |-> "None", args |-> NoArgs, calls |-> <<>>,
     pre |-> [hotels |-> <<>>, hotelsFile |-> AbsentFile, customers |-> <<>>,
              customersFile |-> AbsentFile, reservations |-> <<>>,
              reservationsFile |-> AbsentFile, cancelled |-> {}]]

AtPrompt == last.op = "idle"

Threads == {"t1", "t2"}
NotSaving == [pc |-> "idle", data |-> <<>>]
NotLoaded == [done |-> FALSE, data |-> <<>>]

\* one manager per file, the console loop running, no thread in save_json
ExtraInit ==
    /\ hotelsB = <<>>
    /\ running = TRUE
    /\ saving = [t \in Threads |-> NotSaving]
    /\ loaded = NotLoaded
    /\ passed = {}

\* __init__ of the three managers on stores that do not exist yet: each loads
\* its file; the coordinator is handed both registries (cli.py main)
Init ==
    /\ hotelsFile = AbsentFile
    /\ customersFile = AbsentFile
    /\ reservationsFile = AbsentFile
    /\ hotels = HotelManager_load([mem |-> <<>>, file |-> AbsentFile]).mem
    /\ customers = CustomerManager_load([mem |-> <<>>, file |-> AbsentFile]).mem
    /\ reservations = ReservationManager_load([mem |-> <<>>, file |-> AbsentFile]).mem
    /\ hmAttached = TRUE
    /\ cmAttached = TRUE
    /\ nextId = [hotel |-> 0, customer |-> 0, reservation |-> 0]
    /\ cancelled = {}
    /\ ExtraInit
    /\ last = Idle

HotelStep(r, op, args, ret) ==
    /\ hotels' = r.m.mem
    /\ hotelsFile' = r.m.file
    /\ AtPrompt
    /\ last' = [op |-> op, ret |-> ret, args |-> args, calls |-> <<>>, pre |-> Snapshot]
    /\ UNCHANGED <<customers, customersFile, reservations, reservationsFile,
                   hmAttached, cmAttached, cancelled, extra>>

CustomerStep(r, op, args, ret) ==
    /\ customers' = r.m.mem
    /\ customersFile' = r.m.file
    /\ AtPrompt
    /\ last' = [op |-> op, ret |-> ret, args |-> args, calls |-> <<>>, pre |-> Snapshot]
    /\ UNCHANGED <<hotels, hotelsFile, reservations, reservationsFile,
                   hmAttached, cmAttached, cancelled, extra>>

ReservationStep(r, op, args, ret) ==
    /\ reservations' = r.rm.mem
    /\ reservationsFile' = r.rm.file
    /\ hotels' = r.hm.mem
    /\ hotelsFile' = r.hm.file
    /\ AtPrompt
    /\ last' = [op |-> op, ret |-> ret, args |-> args, calls |-> r.calls, pre |-> Snapshot]
    /\ cancelled' = IF op = "cancel_reservation" /\ ret = "True"
                    THEN cancelled \cup {args.reservation_id} ELSE cancelled
    /\ UNCHANGED <<customers, customersFile, hmAttached, cmAttached, extra>>

BoolStr(b) == IF b THEN "True" ELSE "False"

CreateHotel ==
    \E name \in {NameH, Blank}, address \in {AddrA, <<>>}, total_rooms \in 0..MaxRooms :
        /\ nextId.hotel < MaxHotels
        /\ LET r == create_hotel(HM, name, address, total_rooms,
                                 _generate_id("hotel", nextId.hotel + 1))
           IN /\ HotelStep(r, "create_hotel",
                           [hotel_id |-> r.obj.hotel_id, name |-> name,
                            address |-> address, total_rooms |-> total_rooms], r.ret)
              /\ nextId' = IF r.ret = "Hotel"
                           THEN [nextId EXCEPT !.hotel = @ + 1] ELSE nextId

DeleteHotel ==
    \E hotel_id \in HotelIds :
        LET r == delete_hotel(HM, hotel_id)
        IN /\ HotelStep(r, "delete_hotel", [NoArgs EXCEPT !.hotel_id = hotel_id],
                        BoolStr(r.ret))
           /\ UNCHANGED nextId

ModifyHotelWith(hotel_ids, kwargs_set) ==
    \E hotel_id \in hotel_ids, kwargs \in kwargs_set :
        LET r == modify_hotel(HM, hotel_id, kwargs)
        IN /\ HotelStep(r, "modify_hotel", [hotel_id |-> hotel_id, kwargs |-> kwargs],
                        r.ret)
           /\ UNCHANGED nextId

ModifyHotel == ModifyHotelWith(HotelIds, HotelKwargs)

ReserveRoom ==
    \E hotel_id \in HotelIds :
        LET r == reserve_room(HM, hotel_id)
        IN /\ HotelStep(r, "reserve_room", [NoArgs EXCEPT !.hotel_id = hotel_id],
                        BoolStr(r.ret))
           /\ UNCHANGED nextId

CancelRoom ==
    \E hotel_id \in HotelIds :
        LET r == cancel_room(HM, hotel_id)
        IN /\ HotelStep(r, "cancel_room", [NoArgs EXCEPT !.hotel_id = hotel_id],
                        BoolStr(r.ret))
           /\ UNCHANGED nextId

CreateCustomerWith(names, emails) ==
    \E name \in names, email \in emails :
        /\ nextId.customer < MaxCustomers
        /\ LET r == create_customer(CM, name, email,
                                    _generate_id("customer", nextId.customer + 1))
           IN /\ CustomerStep(r, "create_customer",
                              [customer_id |-> r.obj.customer_id, name |-> name,
                               email |-> email], r.ret)
              /\ nextId' = IF r.ret = "Customer"
                           THEN [nextId EXCEPT !.customer = @ + 1] ELSE nextId

CreateCustomer == CreateCustomerWith({NameH, Blank}, {EmailOk, EmailNoAt, EmailNoDot})

DeleteCustomer ==
    \E customer_id \in CustomerIds :
        LET r == delete_customer(CM, customer_id)
        IN /\ CustomerStep(r, "delete_customer",
                           [NoArgs EXCEPT !.customer_id = customer_id], BoolStr(r.ret))
           /\ UNCHANGED nextId

ModifyCustomerWith(customer_ids, kwargs_set) ==
    \E customer_id \in customer_ids, kwargs \in kwargs_set :
        LET r == modify_customer(CM, customer_id, kwargs)
        IN /\ CustomerStep(r, "modify_customer",
                           [customer_id |-> customer_id, kwargs |-> kwargs], r.ret)
           /\ UNCHANGED nextId

ModifyCustomer == ModifyCustomerWith(CustomerIds, CustomerKwargs)

CreateReservationWith(customer_ids, hotel_ids) ==
    \E customer_id \in customer_ids, hotel_id \in hotel_ids,
       dates \in DatePairs :
        /\ nextId.reservation < MaxReservations
        /\ LET new_id == _generate_id("reservation", nextId.reservation + 1)
               r == create_reservation(RM, HM, CM, hmAttached, cmAttached, customer_id,
                                       hotel_id, dates[1], dates[2], new_id)
           IN /\ ReservationStep(r, "create_reservation",
                                 [hotel_id |-> hotel_id, customer_id |-> customer_id,
                                  reservation_id |-> new_id, check_in |-> dates[1],
                                  check_out |-> dates[2]], r.ret)
              /\ nextId' = IF r.ret = "Reservation"
                           THEN [nextId EXCEPT !.reservation = @ + 1] ELSE nextId

CreateReservation == CreateReservationWith(CustomerIds, HotelIds)

CancelReservation ==
    \E reservation_id \in ReservationIds :
        LET r == cancel_reservation(RM, HM, hmAttached, reservation_id)
        IN /\ ReservationStep(r, "cancel_reservation",
                              [NoArgs EXCEPT !.reservation_id = reservation_id],
                              BoolStr(r.ret))
           /\ UNCHANGED nextId

\* the console loop goes back to its prompt: the result is dropped
Prompt ==
    /\ running
    /\ ~AtPrompt
    /\ last.op # "start"
    /\ ~(last.op = "main" /\ last.ret # "None")
    /\ last' = Idle
    /\ UNCHANGED <<hotels, hotelsFile, customers, customersFile, reservations,
                   reservationsFile, hmAttached, cmAttached, nextId, cancelled, extra>>

Next ==
    \/ Prompt
    \/ CreateHotel
    \/ DeleteHotel
    \/ ModifyHotel
    \/ ReserveRoom
    \/ CancelRoom
    \/ CreateCustomer
    \/ DeleteCustomer
    \/ ModifyCustomer
    \/ CreateReservation
    \/ CancelReservation

Spec == Init /\ [][Next]_vars

-----------------------------------------------------------------------------
(* A session started on files it did not write: main() constructs the     *)
(* three managers, each loading its file, and reservations are then made.  *)
(* The three loads do not read each other's file, so one file at a time is *)
(* drawn from every content listed while the other two are absent or hold  *)
(* one good record.  Records of a file have pairwise distinct identifiers  *)
(* (the layout of a collection), none of them one that _generate_id will   *)
(* return in the session.                                                  *)

HGood ==
    [name |-> NameH, address |-> AddrA, total_rooms |-> MaxRooms, rooms_available |-> 1,
     hotel_id |-> "h1"]
HNoAvailable == [name |-> NameN, address |-> AddrA, total_rooms |-> 1, hotel_id |-> "h2"]
HMinusOne ==
    [name |-> NameH, address |-> AddrA, total_rooms |-> 1, rooms_available |-> -1,
     hotel_id |-> "h8"]
\* and records without address, with a blank name, with rooms_available
\* below 0 and above total_rooms
HotelRecords ==
    {HGood, HNoAvailable, HMinusOne, NotADict,
     [name |-> NameH, total_rooms |-> 1, rooms_available |-> 1, hotel_id |-> "h5"],
     [name |-> Blank, address |-> AddrA, total_rooms |-> 1, rooms_available |-> 1,
      hotel_id |-> "h6"],
     [name |-> NameH, address |-> AddrA, total_rooms |-> 1, rooms_available |-> -2,
      hotel_id |-> "h7"],
     [name |-> NameH, address |-> AddrA, total_rooms |-> 1, rooms_available |-> 2,
      hotel_id |-> "h9"]}

CGood == [name |-> NameN, email |-> EmailOk, customer_id |-> "c1"]
\* and records without email and with an email without "@"
CustomerRecords ==
    {CGood, NotADict, [name |-> NameN, customer_id |-> "c5"],
     [name |-> NameN, email |-> EmailNoAt, customer_id |-> "c6"]}

RGood ==
    [customer_id |-> "c1", hotel_id |-> "h1", check_in |-> Jul1, check_out |-> Jul5,
     reservation_id |-> "r5"]
RReversed ==
    [customer_id |-> "c1", hotel_id |-> "h1", check_in |-> Jul5, check_out |-> Jul1,
     reservation_id |-> "r8"]
\* and records without check_out, with a date that does not exist and with an
\* empty customer_id
ReservationRecords ==
    {RGood, RReversed, NotADict,
     [customer_id |-> "c1", hotel_id |-> "h1", check_in |-> Jul1, reservation_id |-> "r6"],
     [customer_id |-> "c1", hotel_id |-> "h1", check_in |-> Jul1, check_out |-> Feb30,
      reservation_id |-> "r7"],
     [customer_id |-> "", hotel_id |-> "h1", check_in |-> Jul1, check_out |-> Jul5,
      reservation_id |-> "r9"]}

\* what a file can hold when the session starts
\* (a list of at most MaxRecords records of the pool, none taken twice)
Files(pool) ==
    {AbsentFile, CorruptFile, UndecodableFile}
    \cup {ListFile(s) : s \in UNION {{t \in [1..k -> pool] :
                                        \A i, j \in 1..k : t[i] = t[j] => i = j} :
                                     k \in 0..MaxRecords}}

PlainFiles(good) == {AbsentFile, ListFile(<<good>>)}

Start == [Idle EXCEPT !.op = "start"]

InitLoad ==
    /\ hotelsFile \in Files(HotelRecords)
    /\ customersFile \in Files(CustomerRecords)
    /\ reservationsFile \in Files(ReservationRecords)
    /\ \/ hotelsFile \in PlainFiles(HGood) /\ customersFile \in PlainFiles(CGood)
       \/ hotelsFile \in PlainFiles(HGood) /\ reservationsFile \in PlainFiles(RGood)
       \/ customersFile \in PlainFiles(CGood) /\ reservationsFile \in PlainFiles(RGood)
    /\ hotels = <<>>
    /\ customers = <<>>
    /\ reservations = <<>>
    /\ hmAttached = TRUE
    /\ cmAttached = TRUE
    /\ nextId = [hotel |-> 0, customer |-> 0, reservation |-> 0]
    /\ cancelled = {}
    /\ ExtraInit
    /\ last = Start

\* main() up to its loop: HotelManager(...), CustomerManager(...),
\* ReservationManager(...), in this order; an exception a constructor lets
\* through ends the process before the later ones run
Main ==
    LET hx == LoadRaises(hotelsFile)
        cx == IF hx # "None" THEN hx ELSE LoadRaises(customersFile)
        rx == IF cx # "None" THEN cx ELSE LoadRaises(reservationsFile)
    IN /\ last.op = "start"
       /\ hotels' = IF hx = "None" THEN HotelManager_load(HM).mem ELSE hotels
       /\ customers' = IF cx = "None" THEN CustomerManager_load(CM).mem ELSE customers
       /\ reservations' = IF rx = "None" THEN ReservationManager_load(RM).mem
                          ELSE reservations
       /\ last' = [op |-> "main", ret |-> rx, args |-> NoArgs, calls |-> <<>>,
                   pre |-> Snapshot]
       /\ UNCHANGED <<hotelsFile, customersFile, reservationsFile, hmAttached,
                      cmAttached, nextId, cancelled, extra>>

NextLoad ==
    \/ Main
    \/ Prompt
    \/ CreateReservation

SpecLoad == InitLoad /\ [][NextLoad]_vars

-----------------------------------------------------------------------------
(* A coordinator constructed on its file alone, ReservationManager(path),  *)
(* next to a HotelManager it was not handed: hotel_manager and             *)
(* customer_manager are None.                                              *)

InitDetached ==
    /\ hotelsFile = AbsentFile
    /\ customersFile = AbsentFile
    /\ reservationsFile = AbsentFile
    /\ hotels = HotelManager_load([mem |-> <<>>, file |-> AbsentFile]).mem
    /\ customers = CustomerManager_load([mem |-> <<>>, file |-> AbsentFile]).mem
    /\ reservations = ReservationManager_load([mem |-> <<>>, file |-> AbsentFile]).mem
    /\ hmAttached = FALSE
    /\ cmAttached = FALSE
    /\ nextId = [hotel |-> 0, customer |-> 0, reservation |-> 0]
    /\ cancelled = {}
    /\ ExtraInit
    /\ last = Idle

NextDetached ==
    \/ Prompt
    \/ CreateHotel
    \/ ReserveRoom
    \/ CreateReservationWith(CustomerIds \cup {""}, HotelIds \cup {""})
    \/ CancelReservation

SpecDetached == InitDetached /\ [][NextDetached]_vars

-----------------------------------------------------------------------------
(* Two HotelManager instances on the same filepath, A (hotels) and B       *)
(* (hotelsB): each loaded the file when it was constructed and rewrites    *)
(* the whole file from its own dict at every successful mutation.  A call  *)
(* runs to completion before the next one starts.                          *)

HMB == [mem |-> hotelsB, file |-> hotelsFile]

HotelStepB(r, op, args, ret) ==
    /\ hotelsB' = r.m.mem
    /\ hotelsFile' = r.m.file
    /\ AtPrompt
    /\ last' = [op |-> op, ret |-> ret, args |-> args, calls |-> <<>>, pre |-> Snapshot]
    /\ UNCHANGED <<hotels, customers, customersFile, reservations, reservationsFile,
                   hmAttached, cmAttached, cancelled, running, saving, loaded, passed>>

\* HotelManager(filepath) constructed anew as B: it loads the file as it is
NewManagerB ==
    /\ HotelStepB([m |-> HotelManager_load(HMB)], "B.__init__", NoArgs, "None")
    /\ UNCHANGED nextId

CreateHotelB ==
    \E total_rooms \in 1..MaxRooms :
        /\ nextId.hotel < MaxHotels
        /\ LET new_id == _generate_id("hotel", nextId.hotel + 1)
               r == create_hotel(HMB, NameN, AddrA, total_rooms, new_id)
           IN /\ HotelStepB(r, "B.create_hotel",
                            [name |-> NameN, address |-> AddrA,
                             total_rooms |-> total_rooms, hotel_id |-> new_id], r.ret)
              /\ nextId' = IF r.ret = "Hotel" THEN [nextId EXCEPT !.hotel = @ + 1]
                           ELSE nextId

ReserveRoomB ==
    \E hotel_id \in HotelIds :
        LET r == reserve_room(HMB, hotel_id)
        IN /\ HotelStepB(r, "B.reserve_room", [NoArgs EXCEPT !.hotel_id = hotel_id],
                         BoolStr(r.ret))
           /\ UNCHANGED nextId

NextWriters ==
    \/ Prompt
    \/ CreateHotel
    \/ ReserveRoom
    \/ NewManagerB
    \/ CreateHotelB
    \/ ReserveRoomB

SpecWriters == InitDetached /\ [][NextWriters]_vars

-----------------------------------------------------------------------------
(* Threads in persistence.py.  save_json is two steps for the file: open   *)
(* with mode "w" empties it, and the text json.dump produced reaches it    *)
(* when the buffer is flushed, at the latest when the with block closes    *)
(* the file; a text longer than the buffer reaches it in parts.  A thread  *)
(* that flushes after another thread wrote since its open writes over that *)
(* text from offset 0: the result is its own text or, when its text is the *)
(* shorter one, a mix.  load_json reads the file as it is when it runs.    *)

PriorList == <<HGood>>

InitThreads ==
    /\ hotelsFile = ListFile(PriorList)
    /\ customersFile = AbsentFile
    /\ reservationsFile = AbsentFile
    /\ hotels = <<>>
    /\ customers = <<>>
    /\ reservations = <<>>
    /\ hmAttached = FALSE
    /\ cmAttached = FALSE
    /\ nextId = [hotel |-> 0, customer |-> 0, reservation |-> 0]
    /\ cancelled = {}
    /\ ExtraInit
    /\ last = Idle

ThreadFrame ==
    UNCHANGED <<hotels, customers, customersFile, reservations, reservationsFile,
                hmAttached, cmAttached, nextId, cancelled, last, hotelsB, running>>

\* save_json up to open(filepath, "w")
SaveOpen ==
    \E t \in Threads, data \in {<<HNoAvailable>>, <<HGood, HNoAvailable>>} :
        /\ saving[t].pc = "idle"
        /\ saving' = [saving EXCEPT ![t] = [pc |-> "open", data |-> data]]
        /\ passed' = passed \cup {data}
        /\ hotelsFile' = WritingFile("truncated")
        /\ loaded' = loaded
        /\ ThreadFrame

\* json.dump fills the buffer and the first part of the text is written,
\* into the empty file or over what another thread wrote since the open
SavePartial ==
    \E t \in Threads :
        /\ saving[t].pc = "open"
        /\ saving' = [saving EXCEPT ![t].pc = "part"]
        /\ hotelsFile' = IF hotelsFile.kind = "truncated" THEN WritingFile("partial")
                         ELSE WritingFile("garbled")
        /\ UNCHANGED <<passed, loaded>>
        /\ ThreadFrame

\* the with block closes the file: the text not yet written is written
SaveClose ==
    \E t \in Threads :
        /\ saving[t].pc \in {"open", "part"}
        /\ saving' = [saving EXCEPT ![t] = NotSaving]
        /\ IF \/ saving[t].pc = "open" /\ hotelsFile.kind = "truncated"
              \/ /\ saving[t].pc = "part"
                 /\ hotelsFile.kind = "partial"
                 /\ \A u \in Threads \ {t} : saving[u].pc = "idle"
           THEN hotelsFile' = save_json(saving[t].data)
           ELSE hotelsFile' \in {save_json(saving[t].data), WritingFile("garbled")}
        /\ UNCHANGED <<passed, loaded>>
        /\ ThreadFrame

\* load_json in a third thread
Load ==
    /\ loaded' = [done |-> TRUE, data |-> load_json(hotelsFile)]
    /\ UNCHANGED <<hotelsFile, saving, passed>>
    /\ ThreadFrame

NextThreads ==
    \/ SaveOpen
    \/ SavePartial
    \/ SaveClose
    \/ Load

SpecThreads == InitThreads /\ [][NextThreads]_vars

-----------------------------------------------------------------------------
(* Customer.validate over every short email: a session whose customers     *)
(* file is absent or holds one record, and in which hotels are created and *)
(* customers are created and modified with any email of at most            *)
(* MaxEmailLen characters.                                                 *)

\* the characters the email test tells apart: "@", "." and any other
Emails == UNION {[1..k -> {"a", "@", "."}] : k \in 0..MaxEmailLen}

InitCustomers ==
    /\ hotelsFile = AbsentFile
    /\ customersFile \in
           {AbsentFile}
           \cup {ListFile(<<[name |-> NameN, email |-> e, customer_id |-> "c5"]>>) :
                    e \in Emails}
    /\ reservationsFile = AbsentFile
    /\ hotels = <<>>
    /\ customers = <<>>
    /\ reservations = <<>>
    /\ hmAttached = TRUE
    /\ cmAttached = TRUE
    /\ nextId = [hotel |-> 0, customer |-> 0, reservation |-> 0]
    /\ cancelled = {}
    /\ ExtraInit
    /\ last = Start

NextCustomers ==
    \/ Main
    \/ Prompt
    \/ CreateHotel
    \/ CreateCustomerWith({NameN, Blank}, Emails)
    \/ ModifyCustomerWith(CustomerIds \cup {"c5"}, {[email |-> e] : e \in Emails})

SpecCustomers == InitCustomers /\ [][NextCustomers]_vars

-----------------------------------------------------------------------------
(* The console: main()'s loop reads a line, and dispatch routes it to a    *)
(* handler that asks for its inputs and calls one manager operation.       *)

UpperCase ==
    [q |-> "Q", u |-> "U", i |-> "I", t |-> "T", e |-> "E", x |-> "X", h |-> "H",
     a |-> "A", c |-> "C", d |-> "D", r |-> "R", n |-> "N", s |-> "S", l |-> "L",
     p |-> "P", z |-> "Z"]

\* str.lower()
lower(s) ==
    [i \in 1..Len(s) |->
        IF \E k \in DOMAIN UpperCase : UpperCase[k] = s[i]
        THEN CHOOSE k \in DOMAIN UpperCase : UpperCase[k] = s[i]
        ELSE s[i]]

\* str.upper(), for what the user may type
upper(s) == [i \in 1..Len(s) |-> IF s[i] \in DOMAIN UpperCase THEN UpperCase[s[i]] ELSE s[i]]

Digits == <<"0", "1", "2", "3", "4", "5", "6", "7", "8", "9">>

RECURSIVE Decimal(_)
Decimal(s) ==
    IF s = <<>> THEN 0
    ELSE 10 * Decimal(SubSeq(s, 1, Len(s) - 1))
         + (CHOOSE k \in 1..Len(Digits) : Digits[k] = s[Len(s)]) - 1

\* int(text): an optional sign and decimal digits, surrounding blanks ignored;
\* anything else raises ValueError
int(text) ==
    LET s == strip(text)
        signed == s # <<>> /\ s[1] \in {"-", "+"}
        body == IF signed THEN Tail(s) ELSE s
    IN IF body = <<>> \/ \E i \in 1..Len(body) : ~Contains(Digits, body[i])
       THEN [ok |-> FALSE, val |-> 0]
       ELSE [ok |-> TRUE,
             val |-> IF signed /\ s[1] = "-" THEN 0 - Decimal(body) ELSE Decimal(body)]

\* str(n) of a natural number
RECURSIVE str(_)
str(n) == IF n < 10 THEN <<Digits[n + 1]>> ELSE str(n \div 10) \o <<Digits[(n % 10) + 1]>>

\* ask(label, default): the stripped answer, the default when it is empty
ask(answer, default) == IF strip(answer) # <<>> THEN strip(answer) ELSE default

QuitWords == {<<"q">>, <<"q", "u", "i", "t">>, <<"e", "x", "i", "t">>}

COMMANDS ==
    {<<<<"h">>, "hotel_list">>, <<<<"h", "a">>, "hotel_add">>,
     <<<<"h", "e">>, "hotel_edit">>, <<<<"h", "d">>, "hotel_delete">>,
     <<<<"c">>, "cust_list">>, <<<<"c", "a">>, "cust_add">>,
     <<<<"c", "e">>, "cust_edit">>, <<<<"c", "d">>, "cust_delete">>,
     <<<<"r">>, "res_list">>, <<<<"r", "n">>, "res_new">>,
     <<<<"r", "c">>, "res_cancel">>}

\* mutant: a command that is not in the table leaves the loop
dispatch_unknown_quits(cmd) ==
    LET c == lower(strip(cmd))
    IN IF c \in QuitWords THEN "quit"
       ELSE IF c \in {<<"?">>, <<"h", "e", "l", "p">>} THEN "show_help"
       ELSE IF c \in {<<"s">>, <<"s", "t", "a", "t", "u", "s">>} THEN "status"
       ELSE IF \E p \in COMMANDS : p[1] = c THEN (CHOOSE p \in COMMANDS : p[1] = c)[2]
       ELSE "quit"

\* dispatch: what the command is routed to
dispatch(cmd) ==
    LET c == lower(strip(cmd))
    IN IF c \in QuitWords THEN "quit"
       ELSE IF c \in {<<"?">>, <<"h", "e", "l", "p">>} THEN "show_help"
       ELSE IF c \in {<<"s">>, <<"s", "t", "a", "t", "u", "s">>} THEN "status"
       ELSE IF \E p \in COMMANDS : p[1] = c THEN (CHOOSE p \in COMMANDS : p[1] = c)[2]
       ELSE "unknown"

\* the lines typed at the prompt: every word of the router, words it does not
\* know, and some of them in capitals or between blanks
Typed ==
    LET varied == QuitWords \cup {<<"h", "a">>, <<"z">>, <<"?">>}
    IN QuitWords \cup {<<"?">>, <<"h", "e", "l", "p">>, <<"s">>,
                       <<"s", "t", "a", "t", "u", "s">>}
       \cup {p[1] : p \in COMMANDS}
       \cup {<<"z">>, <<"q", "q">>, <<"h", "a", "x">>, <<"Q", "u", "i", "t">>,
             <<"q", " ", "q">>}
       \cup {upper(w) : w \in varied} \cup {<<" ">> \o w \o <<" ">> : w \in varied}

\* the handlers of the router, and the lines typed that reach each of them
Handlers == {"quit", "show_help", "status", "unknown"} \cup {p[2] : p \in COMMANDS}
Lines == [handler \in Handlers |-> {cmd \in Typed : dispatch(cmd) = handler}]

\* pick(items): the identifier chosen from a non-empty list, or None
pick(d, kf) == {d[i][kf] : i \in 1..Len(d)} \cup {"None"}

\* the handler named asks at least one question before it returns
Prompts(handler) ==
    \/ handler \in {"hotel_add", "cust_add"}
    \/ handler \in {"hotel_edit", "hotel_delete"} /\ hotels # <<>>
    \/ handler \in {"cust_edit", "cust_delete"} /\ customers # <<>>
    \/ handler = "res_new" /\ customers # <<>> /\ hotels # <<>>
    \/ handler = "res_cancel" /\ reservations # <<>>

InitConsole ==
    /\ hotelsFile = AbsentFile
    /\ customersFile = AbsentFile
    /\ reservationsFile = AbsentFile
    /\ hotels = <<>>
    /\ customers = <<>>
    /\ reservations = <<>>
    /\ hmAttached = TRUE
    /\ cmAttached = TRUE
    /\ nextId = [hotel |-> 0, customer |-> 0, reservation |-> 0]
    /\ cancelled = {}
    /\ ExtraInit
    /\ last = Start

\* one turn of the loop that reached dispatch: the handler's manager call
\* ended as result ("" when it made none) and left the managers as hm, cm and
\* rm; the loop goes on exactly when dispatch returned True
ConsoleStep(cmd, ret, result, hm, cm, rm, ids, canc) ==
    /\ AtPrompt
    /\ running
    /\ hotels' = hm.mem
    /\ hotelsFile' = hm.file
    /\ customers' = cm.mem
    /\ customersFile' = cm.file
    /\ reservations' = rm.mem
    /\ reservationsFile' = rm.file
    /\ nextId' = ids
    /\ cancelled' = canc
    /\ running' = (ret = "True")
    /\ last' = [op |-> "dispatch", ret |-> ret,
                args |-> [cmd |-> cmd, result |-> result],
                calls |-> <<>>, pre |-> Snapshot]
    /\ UNCHANGED <<hmAttached, cmAttached, hotelsB, saving, loaded, passed>>

Unchanged(cmd, ret, result) ==
    ConsoleStep(cmd, ret, result, HM, CM, RM, nextId, cancelled)

\* input() at the prompt raises EOFError or KeyboardInterrupt: break
EndOfInput ==
    \E x \in {"EOFError", "KeyboardInterrupt"} :
        /\ AtPrompt
        /\ running
        /\ running' = FALSE
        /\ last' = [op |-> "input", ret |-> x, args |-> NoArgs, calls |-> <<>>,
                    pre |-> Snapshot]
        /\ UNCHANGED <<hotels, hotelsFile, customers, customersFile, reservations,
                       reservationsFile, hmAttached, cmAttached, nextId, cancelled,
                       hotelsB, saving, loaded, passed>>

\* an empty line: continue
EmptyLine ==
    \E cmd \in {<<>>, <<" ">>} :
        /\ AtPrompt
        /\ running
        /\ last' = [op |-> "input", ret |-> "continue", args |-> [cmd |-> cmd],
                    calls |-> <<>>, pre |-> Snapshot]
        /\ UNCHANGED <<hotels, hotelsFile, customers, customersFile, reservations,
                       reservationsFile, hmAttached, cmAttached, nextId, cancelled, extra>>

\* dispatch returns False: "Goodbye!" and break
Quit ==
    \E cmd \in Lines["quit"] :
        /\ running
        /\ Unchanged(cmd, "False", "")

\* help, status, the three lists, an unknown command, and a handler that has
\* nothing to pick from
NoQuestion ==
    \E handler \in Handlers \ {"quit"} :
        /\ ~Prompts(handler)
        /\ \E cmd \in Lines[handler] : Unchanged(cmd, "True", "")

\* input() inside a handler raises: nothing catches it below main
InputEndsInHandler ==
    \E handler \in Handlers, x \in {"EOFError", "KeyboardInterrupt"} :
        /\ Prompts(handler)
        /\ \E cmd \in Lines[handler] : Unchanged(cmd, x, "")

hotel_add ==
    \E cmd \in Lines["hotel_add"], name \in {NameH, Blank}, address \in {AddrA, <<>>},
       rooms \in {<<"1">>, <<"2">>, <<"0">>, <<"-", "1">>, <<"x">>, <<>>} :
        /\ nextId.hotel < MaxHotels
        /\ LET n == int(ask(rooms, <<>>))
               r == create_hotel(HM, ask(name, <<>>), ask(address, <<>>), n.val,
                                 _generate_id("hotel", nextId.hotel + 1))
           IN IF ask(name, <<>>) = <<>> THEN Unchanged(cmd, "True", "")
              ELSE IF ~n.ok \/ r.ret # "Hotel" THEN Unchanged(cmd, "True", "ValueError")
              ELSE ConsoleStep(cmd, "True", r.ret, r.m, CM, RM,
                               [nextId EXCEPT !.hotel = @ + 1], cancelled)

hotel_edit ==
    \E cmd \in Lines["hotel_edit"], hid \in pick(hotels, "hotel_id"), name \in {<<>>, NameN},
       rooms \in {<<>>, <<"1">>, <<"0">>, <<"x">>} :
        /\ hotels # <<>>
        /\ IF hid = "None" THEN Unchanged(cmd, "True", "")
           ELSE LET hotel == Get(hotels, "hotel_id", hid)
                    n == int(ask(rooms, str(hotel.total_rooms)))
                    r == modify_hotel(HM, hid,
                                      [name |-> ask(name, hotel.name),
                                       address |-> ask(<<>>, hotel.address),
                                       total_rooms |-> n.val])
                IN IF ~n.ok THEN Unchanged(cmd, "True", "ValueError")
                   ELSE ConsoleStep(cmd, "True", r.ret, r.m, CM, RM, nextId, cancelled)

hotel_delete ==
    \E cmd \in Lines["hotel_delete"], hid \in pick(hotels, "hotel_id"), yes_no \in BOOLEAN :
        /\ hotels # <<>>
        /\ IF hid = "None" \/ ~yes_no THEN Unchanged(cmd, "True", "")
           ELSE ConsoleStep(cmd, "True", BoolStr(delete_hotel(HM, hid).ret),
                            delete_hotel(HM, hid).m, CM, RM, nextId, cancelled)

cust_add ==
    \E cmd \in Lines["cust_add"], name \in {NameN, Blank}, email \in {EmailOk, EmailNoAt, <<>>} :
        /\ nextId.customer < MaxCustomers
        /\ LET r == create_customer(CM, ask(name, <<>>), ask(email, <<>>),
                                    _generate_id("customer", nextId.customer + 1))
           IN IF ask(name, <<>>) = <<>> THEN Unchanged(cmd, "True", "")
              ELSE IF r.ret # "Customer" THEN Unchanged(cmd, "True", "ValueError")
              ELSE ConsoleStep(cmd, "True", r.ret, HM, r.m, RM,
                               [nextId EXCEPT !.customer = @ + 1], cancelled)

cust_edit ==
    \E cmd \in Lines["cust_edit"], cid \in pick(customers, "customer_id"), name \in {<<>>, NameH},
       email \in {<<>>, EmailNoDot} :
        /\ customers # <<>>
        /\ IF cid = "None" THEN Unchanged(cmd, "True", "")
           ELSE LET cust == Get(customers, "customer_id", cid)
                    r == modify_customer(CM, cid, [name |-> ask(name, cust.name),
                                                   email |-> ask(email, cust.email)])
                IN ConsoleStep(cmd, "True", r.ret, HM, r.m, RM, nextId, cancelled)

cust_delete ==
    \E cmd \in Lines["cust_delete"], cid \in pick(customers, "customer_id"), yes_no \in BOOLEAN :
        /\ customers # <<>>
        /\ IF cid = "None" \/ ~yes_no THEN Unchanged(cmd, "True", "")
           ELSE ConsoleStep(cmd, "True", BoolStr(delete_customer(CM, cid).ret),
                            HM, delete_customer(CM, cid).m, RM, nextId, cancelled)

res_new ==
    \E cmd \in Lines["res_new"], cid \in pick(customers, "customer_id"),
       hid \in pick(hotels, "hotel_id"), dates \in DatePairs :
        /\ customers # <<>>
        /\ hotels # <<>>
        /\ nextId.reservation < MaxReservations
        /\ IF cid = "None" \/ hid = "None" THEN Unchanged(cmd, "True", "")
           ELSE LET r == create_reservation(RM, HM, CM, hmAttached, cmAttached, cid, hid,
                                            dates[1], dates[2],
                                            _generate_id("reservation",
                                                         nextId.reservation + 1))
                IN ConsoleStep(cmd, "True", r.ret, r.hm, CM, r.rm,
                               IF r.ret = "Reservation"
                               THEN [nextId EXCEPT !.reservation = @ + 1] ELSE nextId,
                               cancelled)

res_cancel ==
    \E cmd \in Lines["res_cancel"], rid \in pick(reservations, "reservation_id"), yes_no \in BOOLEAN :
        /\ reservations # <<>>
        /\ IF rid = "None" \/ ~yes_no THEN Unchanged(cmd, "True", "")
           ELSE LET r == cancel_reservation(RM, HM, hmAttached, rid)
                IN ConsoleStep(cmd, "True", BoolStr(r.ret), r.hm, CM, r.rm, nextId,
                               IF r.ret THEN cancelled \cup {rid} ELSE cancelled)

NextConsole ==
    \/ Main
    \/ Prompt
    \/ EndOfInput
    \/ EmptyLine
    \/ Quit
    \/ NoQuestion
    \/ InputEndsInHandler
    \/ hotel_add
    \/ hotel_edit
    \/ hotel_delete
    \/ cust_add
    \/ cust_edit
    \/ cust_delete
    \/ res_new
    \/ res_cancel

SpecConsole == InitConsole /\ [][NextConsole]_vars

-----------------------------------------------------------------------------
(* Bookings only: from empty stores, with both registries attached, the    *)
(* session creates hotels and customers and creates and cancels            *)
(* reservations; nothing is modified or deleted, and reserve_room and      *)
(* cancel_room are called by the coordinator alone.                        *)

NextBooking ==
    \/ Prompt
    \/ CreateHotel
    \/ CreateCustomer
    \/ CreateReservation
    \/ CancelReservation

SpecBooking == Init /\ [][NextBooking]_vars

-----------------------------------------------------------------------------
(* Modifications with every kind of keyword: recognized fields, fields the *)
(* entity does not have, fields of the other entity, and the identifier.   *)

HotelKwargsAny ==
    {[name |-> NameN], [zzz |-> 99], [name |-> NameN, zzz |-> 99],
     [total_rooms |-> 1, customer_id |-> "c2"], [rooms_available |-> 0, email |-> EmailOk],
     [name |-> Blank, zzz |-> 99], [hotel_id |-> "h2"], [name |-> NameN, hotel_id |-> "h2"]}

CustomerKwargsAny ==
    {[name |-> NameH], [zzz |-> 99], [email |-> EmailOk, zzz |-> 99],
     [name |-> NameH, hotel_id |-> "h2"], [email |-> EmailNoAt, zzz |-> 99],
     [customer_id |-> "c2"], [name |-> NameH, customer_id |-> "c2"]}

NextModify ==
    \/ Prompt
    \/ CreateHotel
    \/ CreateCustomer
    \/ ModifyHotelWith(HotelIds, HotelKwargsAny)
    \/ ModifyCustomerWith(CustomerIds, CustomerKwargsAny)

SpecModify == Init /\ [][NextModify]_vars

-----------------------------------------------------------------------------
(* A session on data files found at start, followed by the calls that      *)
(* change and save the entities the load registered.                       *)

NextResave ==
    \/ Main
    \/ Prompt
    \/ DeleteHotel
    \/ ModifyHotel
    \/ ReserveRoom
    \/ CancelRoom
    \/ DeleteCustomer
    \/ ModifyCustomer
    \/ CreateReservation
    \/ CancelReservation

SpecResave == InitLoad /\ [][NextResave]_vars

-----------------------------------------------------------------------------
(* Properties.  last.pre is the state the call started from; the current   *)
(* state is the one it left.                                               *)

HotelIn(d, id) == Get(d, "hotel_id", id)

Ran(op) == last.op = op

\* the hotels of d other than id, in order
OtherHotels(d, id) == SelectSeq(d, LAMBDA h : h.hotel_id # id)

HotelsUntouched == hotels = last.pre.hotels /\ hotelsFile = last.pre.hotelsFile

ReservationsUntouched ==
    reservations = last.pre.reservations /\ reservationsFile = last.pre.reservationsFile

BadDates(a) ==
    \/ ~IsIsoDate(a.check_in)
    \/ ~IsIsoDate(a.check_out)
    \/ DateLE(a.check_out, a.check_in)

\* C1: after any sequence of HotelManager and ReservationManager calls,
\* every hotel the registry holds has total_rooms >= 1 and
\* 0 <= rooms_available <= total_rooms.
C1_RoomCountsInRange ==
    \A i \in 1..Len(hotels) :
        /\ hotels[i].total_rooms >= 1
        /\ 0 <= hotels[i].rooms_available
        /\ hotels[i].rooms_available <= hotels[i].total_rooms

\* a modify_hotel that asked for more available rooms than the hotel has was
\* rolled back, and the hotel is still registered
C1_Witness ==
    /\ Ran("modify_hotel")
    /\ last.ret = "None"
    /\ Has(hotels, "hotel_id", last.args.hotel_id)
    /\ "rooms_available" \in DOMAIN last.args.kwargs
    /\ last.args.kwargs.rooms_available > HotelIn(hotels, last.args.hotel_id).total_rooms

\* C2: a successful create_reservation with a Hotel Registry attached takes
\* exactly one room from the hotel, appends exactly one reservation with the
\* given customer, hotel and dates, and changes no other hotel and no
\* reservation that existed.
C2_CreateTakesOneRoom ==
    (Ran("create_reservation") /\ last.ret = "Reservation" /\ hmAttached) =>
        LET a == last.args IN
        /\ Has(last.pre.hotels, "hotel_id", a.hotel_id)
        /\ Has(hotels, "hotel_id", a.hotel_id)
        /\ HotelIn(hotels, a.hotel_id) =
             [HotelIn(last.pre.hotels, a.hotel_id) EXCEPT !.rooms_available = @ - 1]
        /\ OtherHotels(hotels, a.hotel_id) = OtherHotels(last.pre.hotels, a.hotel_id)
        /\ Len(hotels) = Len(last.pre.hotels)
        /\ ~Has(last.pre.reservations, "reservation_id", a.reservation_id)
        /\ reservations = Append(last.pre.reservations,
                                 [reservation_id |-> a.reservation_id,
                                  customer_id |-> a.customer_id, hotel_id |-> a.hotel_id,
                                  check_in |-> a.check_in, check_out |-> a.check_out])

\* a reservation was created while another hotel and another reservation existed
C2_Witness ==
    /\ Ran("create_reservation")
    /\ last.ret = "Reservation"
    /\ hmAttached
    /\ Len(hotels) >= 2
    /\ Len(reservations) >= 2

\* C3 as stated: every cancel_reservation that returns True raises the
\* rooms_available of the reservation's hotel by exactly 1.
C3_CancelAlwaysReleases ==
    (Ran("cancel_reservation") /\ last.ret = "True" /\ hmAttached) =>
        LET hid == Get(last.pre.reservations, "reservation_id",
                       last.args.reservation_id).hotel_id
        IN /\ Has(last.pre.hotels, "hotel_id", hid)
           /\ Has(hotels, "hotel_id", hid)
           /\ HotelIn(hotels, hid).rooms_available =
                HotelIn(last.pre.hotels, hid).rooms_available + 1

\* C3 amended: a cancel_reservation that returns True raises the
\* rooms_available of the reservation's hotel by exactly 1 when that hotel is
\* still registered and below capacity, and otherwise changes no hotel.
C3_CancelReleasesWhenPossible ==
    (Ran("cancel_reservation") /\ last.ret = "True" /\ hmAttached) =>
        LET hid == Get(last.pre.reservations, "reservation_id",
                       last.args.reservation_id).hotel_id
        IN IF /\ Has(last.pre.hotels, "hotel_id", hid)
              /\ HotelIn(last.pre.hotels, hid).rooms_available
                   < HotelIn(last.pre.hotels, hid).total_rooms
           THEN /\ Has(hotels, "hotel_id", hid)
                /\ HotelIn(hotels, hid) =
                     [HotelIn(last.pre.hotels, hid) EXCEPT !.rooms_available = @ + 1]
                /\ OtherHotels(hotels, hid) = OtherHotels(last.pre.hotels, hid)
           ELSE HotelsUntouched

\* a cancellation gave a room back
C3_Witness ==
    /\ Ran("cancel_reservation")
    /\ last.ret = "True"
    /\ hmAttached
    /\ last.calls = <<[fn |-> "cancel_room", ret |-> TRUE]>>

\* C4: create_reservation with check_out <= check_in or an unparsable date
\* fails, stores no reservation, and leaves the hotels as they were in memory
\* and in the file: a room taken during the attempt is given back first.
C4_BadDatesRestoreRoom ==
    (Ran("create_reservation") /\ BadDates(last.args)) =>
        /\ last.ret = "None"
        /\ ReservationsUntouched
        /\ HotelsUntouched
        /\ (Len(last.calls) >= 1 /\ last.calls[1].ret) =>
               last.calls = <<[fn |-> "reserve_room", ret |-> TRUE],
                              [fn |-> "cancel_room", ret |-> TRUE]>>

\* an attempt with bad dates took a room and gave it back
C4_Witness ==
    /\ Ran("create_reservation")
    /\ BadDates(last.args)
    /\ last.ret = "None"
    /\ last.calls = <<[fn |-> "reserve_room", ret |-> TRUE],
                      [fn |-> "cancel_room", ret |-> TRUE]>>

\* C5: create_reservation with a customer unknown to the attached Customer
\* Registry or a hotel unknown to the attached Hotel Registry fails, stores
\* nothing and changes no hotel; for an unknown customer no HotelManager call
\* is made at all.
C5_UnknownReferenceFails ==
    (Ran("create_reservation") /\
       \/ cmAttached /\ ~Has(last.pre.customers, "customer_id", last.args.customer_id)
       \/ hmAttached /\ ~Has(last.pre.hotels, "hotel_id", last.args.hotel_id)) =>
        /\ last.ret = "None"
        /\ ReservationsUntouched
        /\ HotelsUntouched
        /\ last.calls = <<>>

\* an attempt for an unknown customer at a hotel that has a free room, with
\* valid dates
C5_Witness ==
    /\ Ran("create_reservation")
    /\ cmAttached
    /\ hmAttached
    /\ ~Has(last.pre.customers, "customer_id", last.args.customer_id)
    /\ Has(last.pre.hotels, "hotel_id", last.args.hotel_id)
    /\ HotelIn(last.pre.hotels, last.args.hotel_id).rooms_available > 0
    /\ ~BadDates(last.args)

\* C6: create_reservation for a known customer, valid dates and a hotel with
\* rooms_available = 0 fails, adds no reservation and leaves the count at 0;
\* reserve_room is the only HotelManager call made (no release).
C6_SoldOutFails ==
    (/\ Ran("create_reservation")
     /\ hmAttached
     /\ cmAttached => Has(last.pre.customers, "customer_id", last.args.customer_id)
     /\ ~BadDates(last.args)
     /\ Has(last.pre.hotels, "hotel_id", last.args.hotel_id)
     /\ HotelIn(last.pre.hotels, last.args.hotel_id).rooms_available = 0) =>
        /\ last.ret = "None"
        /\ ReservationsUntouched
        /\ HotelsUntouched
        /\ HotelIn(hotels, last.args.hotel_id).rooms_available = 0
        /\ last.calls = <<[fn |-> "reserve_room", ret |-> FALSE]>>

\* an attempt at a sold-out hotel that already has a reservation
C6_Witness ==
    /\ Ran("create_reservation")
    /\ hmAttached
    /\ Has(last.pre.customers, "customer_id", last.args.customer_id)
    /\ ~BadDates(last.args)
    /\ Has(last.pre.hotels, "hotel_id", last.args.hotel_id)
    /\ HotelIn(last.pre.hotels, last.args.hotel_id).rooms_available = 0
    /\ \E i \in 1..Len(reservations) : reservations[i].hotel_id = last.args.hotel_id

\* C7: cancel_reservation of a reservation that exists returns True and
\* removes it from memory and from the file, also when the release fails
\* (hotel deleted, or already at capacity); when the release fails no hotel
\* changes.
C7_CancelAlwaysProceeds ==
    (Ran("cancel_reservation") /\
       Has(last.pre.reservations, "reservation_id", last.args.reservation_id)) =>
        /\ last.ret = "True"
        /\ reservations = DictDel(last.pre.reservations, "reservation_id",
                                  last.args.reservation_id)
        /\ ~Has(reservations, "reservation_id", last.args.reservation_id)
        /\ reservationsFile.kind = "list"
        /\ ~Has(reservationsFile.data, "reservation_id", last.args.reservation_id)
        /\ Len(reservationsFile.data) = Len(last.pre.reservations) - 1
        /\ (hmAttached /\ last.calls = <<[fn |-> "cancel_room", ret |-> FALSE]>>) =>
               HotelsUntouched

\* a reservation was cancelled after its hotel had been deleted
C7_Witness ==
    /\ Ran("cancel_reservation")
    /\ last.ret = "True"
    /\ hmAttached
    /\ last.calls = <<[fn |-> "cancel_room", ret |-> FALSE]>>
    /\ ~Has(last.pre.hotels, "hotel_id",
            Get(last.pre.reservations, "reservation_id",
                last.args.reservation_id).hotel_id)

\* what the specification calls an invalid hotel and an invalid customer
InvalidHotel(h) ==
    \/ strip(h.name) = <<>>
    \/ strip(h.address) = <<>>
    \/ h.total_rooms < 1
    \/ h.rooms_available < 0
    \/ h.rooms_available > h.total_rooms

InvalidCustomer(c) ==
    \/ strip(c.name) = <<>>
    \/ ~Contains(c.email, "@")
    \/ ~Contains(LastSegment(c.email, "@"), ".")

\* the entity a modify call asks for
Asked(d, kf, id, kwargs, allowed) == ApplyKwargs(Get(d, kf, id), kwargs, allowed)

\* C8: modify_hotel / modify_customer of a registered entity with values that
\* make it invalid returns None and leaves the registry's memory and its file
\* exactly as they were before the call.
C8_InvalidModifyRolledBack ==
    /\ (/\ Ran("modify_hotel")
        /\ Has(last.pre.hotels, "hotel_id", last.args.hotel_id)
        /\ InvalidHotel(Asked(last.pre.hotels, "hotel_id", last.args.hotel_id,
                              last.args.kwargs, HotelAllowed))) =>
           /\ last.ret = "None"
           /\ HotelsUntouched
    /\ (/\ Ran("modify_customer")
        /\ Has(last.pre.customers, "customer_id", last.args.customer_id)
        /\ InvalidCustomer(Asked(last.pre.customers, "customer_id", last.args.customer_id,
                                 last.args.kwargs, CustomerAllowed))) =>
           /\ last.ret = "None"
           /\ customers = last.pre.customers
           /\ customersFile = last.pre.customersFile

\* modify_hotel asked for a total_rooms below the hotel's rooms_available,
\* with a second hotel registered
C8_Witness ==
    /\ Ran("modify_hotel")
    /\ last.ret = "None"
    /\ Has(last.pre.hotels, "hotel_id", last.args.hotel_id)
    /\ "total_rooms" \in DOMAIN last.args.kwargs
    /\ last.args.kwargs.total_rooms >= 1
    /\ last.args.kwargs.total_rooms
         < HotelIn(last.pre.hotels, last.args.hotel_id).rooms_available
    /\ Len(hotels) >= 2

\* C9 as stated: no manager operation that takes entity data raises to its
\* caller; invalid input always comes back as a failed-operation result.
C9_NoExceptionReachesCaller ==
    last.op \in {"create_hotel", "create_customer", "modify_hotel", "modify_customer",
                 "create_reservation"} => last.ret # "ValueError"

\* C9 amended: modify_hotel, modify_customer and create_reservation report
\* invalid input by returning None; create_hotel and create_customer raise
\* the ValueError of the entity constructor to their caller, and the registry
\* is left unchanged.
C9_ValidationOutcome ==
    /\ last.op \in {"modify_hotel", "modify_customer", "create_reservation"} =>
           last.ret # "ValueError"
    /\ (Ran("create_reservation") /\ BadDates(last.args)) => last.ret = "None"
    /\ (/\ Ran("modify_hotel")
        /\ Has(last.pre.hotels, "hotel_id", last.args.hotel_id)
        /\ InvalidHotel(Asked(last.pre.hotels, "hotel_id", last.args.hotel_id,
                              last.args.kwargs, HotelAllowed))) => last.ret = "None"
    /\ (/\ Ran("modify_customer")
        /\ Has(last.pre.customers, "customer_id", last.args.customer_id)
        /\ InvalidCustomer(Asked(last.pre.customers, "customer_id", last.args.customer_id,
                                 last.args.kwargs, CustomerAllowed))) => last.ret = "None"
    /\ Ran("create_hotel") =>
           IF InvalidHotel([name |-> last.args.name, address |-> last.args.address,
                            total_rooms |-> last.args.total_rooms,
                            rooms_available |-> last.args.total_rooms])
           THEN last.ret = "ValueError" /\ HotelsUntouched
           ELSE last.ret = "Hotel"
    /\ Ran("create_customer") =>
           IF InvalidCustomer([name |-> last.args.name, email |-> last.args.email])
           THEN /\ last.ret = "ValueError"
                /\ customers = last.pre.customers
                /\ customersFile = last.pre.customersFile
           ELSE last.ret = "Customer"

\* create_hotel was called with total_rooms = 0 on a registry that holds a hotel
C9_Witness ==
    /\ Ran("create_hotel")
    /\ last.args.total_rooms = 0
    /\ last.ret = "ValueError"
    /\ Len(hotels) >= 1

\* C10: reserve_room returns False and changes nothing for an unknown hotel
\* and for a hotel with rooms_available = 0; for a hotel with
\* rooms_available > 0 it returns True and lowers the count by exactly 1, in
\* memory and in the file.
C10_ReserveRoom ==
    Ran("reserve_room") =>
        LET hid == last.args.hotel_id IN
        IF ~Has(last.pre.hotels, "hotel_id", hid)
        THEN last.ret = "False" /\ HotelsUntouched
        ELSE IF HotelIn(last.pre.hotels, hid).rooms_available = 0
        THEN last.ret = "False" /\ HotelsUntouched
        ELSE /\ HotelIn(last.pre.hotels, hid).rooms_available > 0
             /\ last.ret = "True"
             /\ HotelIn(hotels, hid) =
                  [HotelIn(last.pre.hotels, hid) EXCEPT !.rooms_available = @ - 1]
             /\ OtherHotels(hotels, hid) = OtherHotels(last.pre.hotels, hid)
             /\ hotelsFile = ListFile(hotels)

\* reserve_room was refused at a hotel with no room left
C10_Witness ==
    /\ Ran("reserve_room")
    /\ last.ret = "False"
    /\ Has(last.pre.hotels, "hotel_id", last.args.hotel_id)
    /\ HotelIn(last.pre.hotels, last.args.hotel_id).rooms_available = 0

\* C11: cancel_room returns False and changes nothing for an unknown hotel
\* and for a hotel whose rooms_available equals total_rooms; for a hotel with
\* rooms_available < total_rooms it returns True and raises the count by
\* exactly 1, in memory and in the file.
C11_CancelRoom ==
    Ran("cancel_room") =>
        LET hid == last.args.hotel_id IN
        IF ~Has(last.pre.hotels, "hotel_id", hid)
        THEN last.ret = "False" /\ HotelsUntouched
        ELSE LET h == HotelIn(last.pre.hotels, hid) IN
             IF h.rooms_available = h.total_rooms
             THEN last.ret = "False" /\ HotelsUntouched
             ELSE /\ h.rooms_available < h.total_rooms
                  /\ last.ret = "True"
                  /\ HotelIn(hotels, hid) = [h EXCEPT !.rooms_available = @ + 1]
                  /\ OtherHotels(hotels, hid) = OtherHotels(last.pre.hotels, hid)
                  /\ hotelsFile = ListFile(hotels)

\* cancel_room was refused at a hotel with every room free
C11_Witness ==
    /\ Ran("cancel_room")
    /\ last.ret = "False"
    /\ Has(last.pre.hotels, "hotel_id", last.args.hotel_id)
    /\ HotelIn(last.pre.hotels, last.args.hotel_id).rooms_available =
         HotelIn(last.pre.hotels, last.args.hotel_id).total_rooms

\* C12: in the state a successful create_reservation leaves, cancelling the
\* reservation it returned succeeds and gives back the hotels (every
\* rooms_available, in memory and in the file) and the reservations (in
\* memory, and as a load of the file yields them) of the state before the
\* create.
C12_CreateThenCancelRestores ==
    (Ran("create_reservation") /\ last.ret = "Reservation") =>
        LET r == cancel_reservation(RM, HM, hmAttached, last.args.reservation_id)
        IN /\ r.ret
           /\ r.hm.mem = last.pre.hotels
           /\ r.hm.file = last.pre.hotelsFile
           /\ r.rm.mem = last.pre.reservations
           /\ load_json(r.rm.file) = load_json(last.pre.reservationsFile)

\* a reservation was created next to an earlier one, and cancelling it
\* releases the room it took
C12_Witness ==
    /\ Ran("create_reservation")
    /\ last.ret = "Reservation"
    /\ Len(last.pre.reservations) >= 1
    /\ cancel_reservation(RM, HM, hmAttached, last.args.reservation_id).calls =
         <<[fn |-> "cancel_room", ret |-> TRUE]>>

\* C13: a reservation that cancel_reservation has removed stays absent, and
\* every later cancel_reservation of its id returns False, calls no
\* HotelManager method and changes no hotel and no reservation: its room is
\* released at most once.
C13_CancelledStaysCancelled ==
    /\ \A id \in cancelled : ~Has(reservations, "reservation_id", id)
    /\ (Ran("cancel_reservation") /\ last.args.reservation_id \in last.pre.cancelled) =>
           /\ last.ret = "False"
           /\ last.calls = <<>>
           /\ HotelsUntouched
           /\ ReservationsUntouched

\* a second cancel_reservation of a cancelled id, while its hotel still has
\* a room taken by another reservation
C13_Witness ==
    /\ Ran("cancel_reservation")
    /\ last.args.reservation_id \in last.pre.cancelled
    /\ last.ret = "False"
    /\ \E i \in 1..Len(hotels) : hotels[i].rooms_available < hotels[i].total_rooms
    /\ Len(reservations) >= 1

\* C14: a create_hotel call with a non-blank name, a non-blank address and
\* total_rooms >= 1 returns a hotel whose identifier no registered hotel
\* had, with rooms_available = total_rooms; the registry holds exactly one
\* hotel more, and every hotel it held before is still there, unchanged.
C14_CreateHotelAddsOne ==
    (/\ Ran("create_hotel")
     /\ strip(last.args.name) # <<>>
     /\ strip(last.args.address) # <<>>
     /\ last.args.total_rooms >= 1) =>
        LET hid == last.args.hotel_id IN
        /\ last.ret = "Hotel"
        /\ ~Has(last.pre.hotels, "hotel_id", hid)
        /\ Len(hotels) = Len(last.pre.hotels) + 1
        /\ Has(hotels, "hotel_id", hid)
        /\ HotelIn(hotels, hid).total_rooms = last.args.total_rooms
        /\ HotelIn(hotels, hid).rooms_available = last.args.total_rooms
        /\ OtherHotels(hotels, hid) = last.pre.hotels
        /\ hotelsFile = ListFile(hotels)

\* a hotel was registered next to an earlier one that has a room taken
C14_Witness ==
    /\ Ran("create_hotel")
    /\ last.ret = "Hotel"
    /\ \E i \in 1..Len(last.pre.hotels) :
           last.pre.hotels[i].rooms_available < last.pre.hotels[i].total_rooms
    /\ Len(hotels) = 2

\* the elements of a sequence
Range(seq) == {seq[i] : i \in 1..Len(seq)}

\* the call that has just returned changed a collection and reported success
Succeeded ==
    \/ last.op \in {"create_hotel", "modify_hotel"} /\ last.ret = "Hotel"
    \/ last.op \in {"create_customer", "modify_customer"} /\ last.ret = "Customer"
    \/ last.op = "create_reservation" /\ last.ret = "Reservation"
    \/ /\ last.op \in {"delete_hotel", "reserve_room", "cancel_room", "delete_customer",
                       "cancel_reservation"}
       /\ last.ret = "True"

\* what a manager constructed now on each file would hold
FreshHotels == HotelLoadFrom(load_json(hotelsFile), <<>>)
FreshCustomers == CustomerLoadFrom(load_json(customersFile), <<>>)
FreshReservations == ReservationLoadFrom(load_json(reservationsFile), <<>>)

\* C15: after every successful mutation, managers constructed anew on the
\* same three files load without an exception and hold exactly the
\* entities the session's managers hold, field for field and as many.
C15_ReloadYieldsSameEntities ==
    Succeeded =>
        /\ LoadRaises(hotelsFile) = "None"
        /\ LoadRaises(customersFile) = "None"
        /\ LoadRaises(reservationsFile) = "None"
        /\ Range(FreshHotels) = Range(hotels)
        /\ Len(FreshHotels) = Len(hotels)
        /\ Range(FreshCustomers) = Range(customers)
        /\ Len(FreshCustomers) = Len(customers)
        /\ Range(FreshReservations) = Range(reservations)
        /\ Len(FreshReservations) = Len(reservations)

\* a reservation was created while two hotels are registered, one of them
\* with a room already taken before the call
C15_Witness ==
    /\ Ran("create_reservation")
    /\ last.ret = "Reservation"
    /\ Len(hotels) = 2
    /\ Len(reservations) = 2
    /\ FreshHotels = hotels

\* what the specification calls a well-formed record of each collection, and
\* the entity such a record stands for
WellFormedHotel(rec) ==
    /\ IsDict(rec)
    /\ {"name", "address", "total_rooms", "hotel_id"} \subseteq DOMAIN rec
    /\ ~InvalidHotel([name |-> rec.name, address |-> rec.address,
                      total_rooms |-> rec.total_rooms,
                      rooms_available |-> IF "rooms_available" \in DOMAIN rec
                                          THEN rec.rooms_available ELSE rec.total_rooms])

HotelOf(rec) ==
    [name |-> rec.name, address |-> rec.address, total_rooms |-> rec.total_rooms,
     rooms_available |-> IF "rooms_available" \in DOMAIN rec THEN rec.rooms_available
                         ELSE rec.total_rooms,
     hotel_id |-> rec.hotel_id]

WellFormedCustomer(rec) ==
    /\ IsDict(rec)
    /\ {"name", "email", "customer_id"} \subseteq DOMAIN rec
    /\ ~InvalidCustomer(rec)

WellFormedReservation(rec) ==
    /\ IsDict(rec)
    /\ {"customer_id", "hotel_id", "check_in", "check_out", "reservation_id"}
         \subseteq DOMAIN rec
    /\ rec.customer_id # ""
    /\ rec.hotel_id # ""
    /\ ~BadDates(rec)

\* C16: on stores that are absent or hold a JSON list, the construction of
\* the three managers raises no exception, and each manager then holds
\* exactly the well-formed records of its file: every record with a missing
\* field or an invalid value is skipped, and only those.
C16_MalformedRecordsSkipped ==
    (/\ Ran("main")
     /\ last.pre.hotelsFile.kind \in {"absent", "list"}
     /\ last.pre.customersFile.kind \in {"absent", "list"}
     /\ last.pre.reservationsFile.kind \in {"absent", "list"}) =>
        /\ last.ret = "None"
        /\ Range(hotels) =
             {HotelOf(rec) : rec \in {x \in Range(load_json(hotelsFile)) : WellFormedHotel(x)}}
        /\ Range(customers) =
             {rec \in Range(load_json(customersFile)) : WellFormedCustomer(rec)}
        /\ Range(reservations) =
             {rec \in Range(load_json(reservationsFile)) : WellFormedReservation(rec)}

\* a store that is absent, unreadable, not JSON or not a list
Unusable(file) == file.kind \in {"absent", "corrupt", "undecodable"}

\* C17: when none of the three stores holds a readable JSON list, the
\* construction of the managers raises no exception and every manager starts
\* with zero entities.
C17_UnusableStoreLoadsEmpty ==
    (/\ Ran("main")
     /\ Unusable(last.pre.hotelsFile)
     /\ Unusable(last.pre.customersFile)
     /\ Unusable(last.pre.reservationsFile)) =>
        /\ last.ret = "None"
        /\ hotels = <<>>
        /\ customers = <<>>
        /\ reservations = <<>>

\* C18: every reservation the coordinator holds, loaded from its file or
\* created in the session, has two dates that parse, check_out strictly
\* after check_in, and non-empty customer and hotel identifiers.
C18_ReservationsWellFormed ==
    \A i \in 1..Len(reservations) :
        /\ reservations[i].customer_id # ""
        /\ reservations[i].hotel_id # ""
        /\ IsIsoDate(reservations[i].check_in)
        /\ IsIsoDate(reservations[i].check_out)
        /\ ~DateLE(reservations[i].check_out, reservations[i].check_in)

\* the coordinator holds a reservation loaded from a file that also had a
\* record with reversed dates, and one created after the load
C18_Witness ==
    /\ Ran("create_reservation")
    /\ last.ret = "Reservation"
    /\ RReversed \in Range(load_json(last.pre.reservationsFile))
    /\ Has(reservations, "reservation_id", RGood.reservation_id)
    /\ Len(reservations) = 2

\* the reservations of d that name hotel hid
ReservationsAt(d, hid) == SelectSeq(d, LAMBDA r : r.hotel_id = hid)

\* C19: delete_hotel of a registered hotel returns True and removes it, in
\* memory and in the file, whether or not reservations name it, and
\* delete_customer of a registered customer likewise; neither changes the
\* reservations, in memory or in their file.  A create_reservation for a
\* hotel that is not registered (any more) returns None and changes no
\* hotel and no reservation.
C19_DeleteLeavesReservations ==
    /\ (Ran("delete_hotel") /\ Has(last.pre.hotels, "hotel_id", last.args.hotel_id)) =>
           /\ last.ret = "True"
           /\ hotels = OtherHotels(last.pre.hotels, last.args.hotel_id)
           /\ hotelsFile = ListFile(hotels)
           /\ ReservationsUntouched
    /\ (/\ Ran("delete_customer")
        /\ Has(last.pre.customers, "customer_id", last.args.customer_id)) =>
           /\ last.ret = "True"
           /\ ~Has(customers, "customer_id", last.args.customer_id)
           /\ ReservationsUntouched
           /\ HotelsUntouched
    /\ (/\ Ran("create_reservation")
        /\ ~Has(last.pre.hotels, "hotel_id", last.args.hotel_id)) =>
           /\ last.ret = "None"
           /\ HotelsUntouched
           /\ ReservationsUntouched

\* a valid create_reservation, by a registered customer, for a hotel that
\* was deleted while a reservation named it; that reservation is still held
\* and another hotel is registered
C19_Witness ==
    /\ Ran("create_reservation")
    /\ last.ret = "None"
    /\ ~BadDates(last.args)
    /\ Has(last.pre.customers, "customer_id", last.args.customer_id)
    /\ ~Has(last.pre.hotels, "hotel_id", last.args.hotel_id)
    /\ ReservationsAt(reservations, last.args.hotel_id) # <<>>
    /\ Len(hotels) >= 1

\* C20: on a coordinator that was handed no registry, create_reservation
\* with non-empty customer and hotel identifiers and valid dates returns the
\* reservation, whether or not such a hotel or customer is registered
\* anywhere, and cancel_reservation of that reservation returns True; no
\* call of either makes a HotelManager call or changes a hotel.
C20_DetachedCoordinator ==
    /\ (/\ Ran("create_reservation")
        /\ last.args.customer_id # ""
        /\ last.args.hotel_id # ""
        /\ ~BadDates(last.args)) =>
           /\ last.ret = "Reservation"
           /\ Has(reservations, "reservation_id", last.args.reservation_id)
           /\ cancel_reservation(RM, HM, hmAttached, last.args.reservation_id).ret
           /\ cancel_reservation(RM, HM, hmAttached, last.args.reservation_id).hm = HM
    /\ (Ran("cancel_reservation")
        /\ Has(last.pre.reservations, "reservation_id", last.args.reservation_id)) =>
           last.ret = "True"
    /\ last.op \in {"create_reservation", "cancel_reservation"} =>
           last.calls = <<>> /\ HotelsUntouched

\* a reservation made for a hotel that is registered and sold out, and for a
\* customer nobody registered, was cancelled
C20_Witness ==
    /\ Ran("cancel_reservation")
    /\ last.ret = "True"
    /\ ~hmAttached
    /\ ~cmAttached
    /\ LET r == Get(last.pre.reservations, "reservation_id", last.args.reservation_id)
       IN /\ Has(hotels, "hotel_id", r.hotel_id)
          /\ HotelIn(hotels, r.hotel_id).rooms_available = 0
          /\ ~Has(customers, "customer_id", r.customer_id)

\* C21: with two managers on one file, the file after a successful mutation
\* holds exactly the dict of the manager that made it, whatever the file
\* held before (last write wins, nothing is merged); so a hotel that A
\* created and saved is missing from a fresh load once B, which never
\* loaded it, has saved.
C21_LastWriteWins ==
    /\ (/\ last.op \in {"create_hotel", "reserve_room"}
        /\ last.ret \in {"Hotel", "True"}) => hotelsFile = ListFile(hotels)
    /\ (/\ last.op \in {"B.create_hotel", "B.reserve_room"}
        /\ last.ret \in {"Hotel", "True"}) => hotelsFile = ListFile(hotelsB)

\* B's successful create_hotel has just removed from the file a hotel that
\* A holds and that the file had: a fresh load lacks it
C21_Witness ==
    /\ Ran("B.create_hotel")
    /\ last.ret = "Hotel"
    /\ \E i \in 1..Len(hotels) :
           /\ Has(load_json(last.pre.hotelsFile), "hotel_id", hotels[i].hotel_id)
           /\ ~Has(FreshHotels, "hotel_id", hotels[i].hotel_id)
    /\ Has(FreshHotels, "hotel_id", last.args.hotel_id)

\* C22: whatever the interleaving of save_json and load_json calls on one
\* file, a load_json call returns the list the file held at the start or a
\* list that was handed to some save_json, never an empty or partial one.
C22_LoadReturnsCompleteList ==
    loaded.done => loaded.data \in passed \cup {PriorList}

\* the number of times ch occurs in s
Count(s, ch) == Cardinality({i \in 1..Len(s) : s[i] = ch})

\* the text after the first ch of s
AfterFirst(s, ch) ==
    LET i == CHOOSE k \in 1..Len(s) : s[k] = ch /\ \A j \in 1..(k - 1) : s[j] # ch
    IN SubSeq(s, i + 1, Len(s))

\* a customer as the specification accepts it: a non-empty name and an email
\* with a single "@" whose domain has a "."
AcceptableCustomer(c) ==
    /\ strip(c.name) # <<>>
    /\ Count(c.email, "@") = 1
    /\ Contains(AfterFirst(c.email, "@"), ".")

\* C23: create_customer returns a customer exactly when the name is
\* non-empty and the email has a single "@" with a "." in the domain;
\* modify_customer of a registered customer succeeds exactly when the
\* customer asked for is such a one; a complete record of the file is
\* loaded exactly when it is such a one.
C23_AcceptedIffSingleAt ==
    /\ Ran("create_customer") =>
           (last.ret = "Customer" <=> AcceptableCustomer(last.args))
    /\ (/\ Ran("modify_customer")
        /\ Has(last.pre.customers, "customer_id", last.args.customer_id)) =>
           (last.ret = "Customer" <=>
              AcceptableCustomer(Asked(last.pre.customers, "customer_id",
                                       last.args.customer_id, last.args.kwargs,
                                       CustomerAllowed)))
    /\ Ran("main") =>
           \A i \in 1..Len(load_json(customersFile)) :
               LET rec == load_json(customersFile)[i]
               IN Has(customers, "customer_id", rec.customer_id) <=> AcceptableCustomer(rec)

\* a line that is q, quit or exit once trimmed, in any letter case
IsQuitCommand(cmd) == upper(strip(cmd)) \in {upper(w) : w \in QuitWords}

\* a line the router has an entry for, in any letter case
IsKnownCommand(cmd) ==
    upper(strip(cmd)) \in {upper(w) : w \in {<<"q">>, <<"q", "u", "i", "t">>,
                                            <<"e", "x", "i", "t">>, <<"?">>,
                                            <<"h", "e", "l", "p">>, <<"s">>,
                                            <<"s", "t", "a", "t", "u", "s">>}
                                           \cup {p[1] : p \in COMMANDS}}

InputEnded == last.ret \in {"EOFError", "KeyboardInterrupt"}

C25_RoomsAccounted ==
    \A i \in 1..Len(hotels) :
        hotels[i].rooms_available + Len(ReservationsAt(reservations, hotels[i].hotel_id))
            = hotels[i].total_rooms

\* a create_reservation took a room and failed on its dates while the hotel
\* had another reservation
C25_Witness ==
    /\ Ran("create_reservation")
    /\ last.ret = "None"
    /\ Len(last.calls) = 2
    /\ ReservationsAt(reservations, last.args.hotel_id) # <<>>

\* C26: no hotel is named by more reservations than it has rooms
\* (total_rooms), in any state the public operations of the three managers
\* reach from empty stores.
C26_NoOverbooking ==
    \A i \in 1..Len(hotels) :
        Len(ReservationsAt(reservations, hotels[i].hotel_id)) <= hotels[i].total_rooms

\* the create_reservation that has just returned failed on reserve_room at a
\* hotel with no room available
FailedSoldOut ==
    /\ Ran("create_reservation")
    /\ last.ret = "None"
    /\ last.calls = <<[fn |-> "reserve_room", ret |-> FALSE]>>
    /\ HotelIn(hotels, last.args.hotel_id).rooms_available = 0

\* cancel_reservation(rid) called next, then the same create_reservation
AfterCancel(rid) == cancel_reservation(RM, HM, hmAttached, rid)

SameCreateAfter(rid) ==
    create_reservation(AfterCancel(rid).rm, AfterCancel(rid).hm, CM, hmAttached, cmAttached,
                       last.args.customer_id, last.args.hotel_id, last.args.check_in,
                       last.args.check_out,
                       _generate_id("reservation", nextId.reservation + 1))

\* C27: when create_reservation has failed at a hotel with rooms_available 0,
\* cancelling next any reservation of that hotel succeeds and leaves
\* rooms_available at 1, and the same create_reservation called after it
\* returns a reservation.
C27_SoldOutBookableAfterCancel ==
    FailedSoldOut =>
        \A i \in 1..Len(reservations) :
            reservations[i].hotel_id = last.args.hotel_id =>
                /\ AfterCancel(reservations[i].reservation_id).ret
                /\ HotelIn(AfterCancel(reservations[i].reservation_id).hm.mem,
                           last.args.hotel_id).rooms_available = 1
                /\ SameCreateAfter(reservations[i].reservation_id).ret = "Reservation"

\* C27 (amended): as above, the create_reservation succeeding when its dates
\* are valid; with invalid dates it fails again and the room stays available.
C27_SoldOutBookableWithValidDates ==
    FailedSoldOut =>
        \A i \in 1..Len(reservations) :
            reservations[i].hotel_id = last.args.hotel_id =>
                LET rid == reservations[i].reservation_id
                IN /\ AfterCancel(rid).ret
                   /\ HotelIn(AfterCancel(rid).hm.mem, last.args.hotel_id).rooms_available = 1
                   /\ ~BadDates(last.args) => SameCreateAfter(rid).ret = "Reservation"
                   /\ BadDates(last.args) =>
                          /\ SameCreateAfter(rid).ret = "None"
                          /\ HotelIn(SameCreateAfter(rid).hm.mem,
                                     last.args.hotel_id).rooms_available = 1

\* a create_reservation with valid dates failed at a sold-out hotel that has
\* a reservation to cancel
C27_Witness ==
    /\ FailedSoldOut
    /\ ~BadDates(last.args)
    /\ ReservationsAt(reservations, last.args.hotel_id) # <<>>

\* entity e with the fields of kwargs that are among recognized, and no other
WithRecognized(e, kwargs, recognized) ==
    [f \in DOMAIN e |-> IF f \in recognized /\ f \in DOMAIN kwargs THEN kwargs[f] ELSE e[f]]

Identifiers(d, kf) == [i \in 1..Len(d) |-> d[i][kf]]

\* C28: modify_hotel of a registered hotel does not fail whatever the fields
\* named: when the hotel with its name, address, total_rooms and
\* rooms_available replaced as asked is valid, that hotel is returned, held
\* and written, every other field named (the identifier included) having no
\* effect; modify_customer likewise with name and email; and the
\* identifiers held and written are those held before the call.
C28_OnlyRecognizedFieldsApplied ==
    /\ (/\ Ran("modify_hotel")
        /\ Has(last.pre.hotels, "hotel_id", last.args.hotel_id)) =>
           LET asked == WithRecognized(HotelIn(last.pre.hotels, last.args.hotel_id),
                                       last.args.kwargs,
                                       {"name", "address", "total_rooms", "rooms_available"})
           IN /\ last.ret \in {"Hotel", "None"}
              /\ ~InvalidHotel(asked) =>
                     /\ last.ret = "Hotel"
                     /\ HotelIn(hotels, last.args.hotel_id) = asked
                     /\ HotelIn(load_json(hotelsFile), last.args.hotel_id) = asked
    /\ (/\ Ran("modify_customer")
        /\ Has(last.pre.customers, "customer_id", last.args.customer_id)) =>
           LET asked == WithRecognized(Get(last.pre.customers, "customer_id",
                                           last.args.customer_id),
                                       last.args.kwargs, {"name", "email"})
           IN /\ last.ret \in {"Customer", "None"}
              /\ ~InvalidCustomer(asked) =>
                     /\ last.ret = "Customer"
                     /\ Get(customers, "customer_id", last.args.customer_id) = asked
                     /\ Get(load_json(customersFile), "customer_id",
                            last.args.customer_id) = asked
    /\ last.op \in {"modify_hotel", "modify_customer"} =>
           /\ Identifiers(hotels, "hotel_id") = Identifiers(last.pre.hotels, "hotel_id")
           /\ Identifiers(customers, "customer_id")
                  = Identifiers(last.pre.customers, "customer_id")
           /\ Identifiers(load_json(hotelsFile), "hotel_id")
                  = Identifiers(load_json(last.pre.hotelsFile), "hotel_id")
           /\ Identifiers(load_json(customersFile), "customer_id")
                  = Identifiers(load_json(last.pre.customersFile), "customer_id")

\* C29: create_hotel with an empty name or address or with total_rooms below
\* 1, and create_customer with an empty name or with an email that is not a
\* local part, a single "@" and a domain holding a ".", fail, and leave the
\* registry's memory and its file as they were before the call.
C29_InvalidCreateChangesNothing ==
    /\ (/\ Ran("create_hotel")
        /\ \/ strip(last.args.name) = <<>>
           \/ strip(last.args.address) = <<>>
           \/ last.args.total_rooms < 1) =>
           /\ last.ret # "Hotel"
           /\ hotels = last.pre.hotels
           /\ hotelsFile = last.pre.hotelsFile
    /\ (Ran("create_customer") /\ ~AcceptableCustomer(last.args)) =>
           /\ last.ret # "Customer"
           /\ customers = last.pre.customers
           /\ customersFile = last.pre.customersFile

\* the other rollback: the entity's prior field values are put back, the file
\* is not read
modify_hotel_snapshot(m, hotel_id, kwargs) ==
    IF "hotel_id" \in DOMAIN kwargs THEN [m |-> m, ret |-> "TypeError"]
    ELSE IF ~get_hotel(m, hotel_id) THEN [m |-> m, ret |-> "None"]
    ELSE LET hotel == ApplyKwargs(Get(m.mem, "hotel_id", hotel_id), kwargs, HotelAllowed)
         IN IF ~Hotel_validate(hotel)
            THEN [m |-> m, ret |-> "None"]
            ELSE [m |-> HotelManager_save([m EXCEPT !.mem = DictSet(m.mem, "hotel_id", hotel)]),
                  ret |-> "Hotel"]

modify_customer_snapshot(m, customer_id, kwargs) ==
    IF "customer_id" \in DOMAIN kwargs THEN [m |-> m, ret |-> "TypeError"]
    ELSE IF ~get_customer(m, customer_id) THEN [m |-> m, ret |-> "None"]
    ELSE LET customer == ApplyKwargs(Get(m.mem, "customer_id", customer_id), kwargs,
                                     CustomerAllowed)
         IN IF ~Customer_validate(customer)
            THEN [m |-> m, ret |-> "None"]
            ELSE [m |-> CustomerManager_save(
                          [m EXCEPT !.mem = DictSet(m.mem, "customer_id", customer)]),
                  ret |-> "Customer"]

\* C30: in every state the managers reach, every modify_hotel and
\* modify_customer call returns the same value and leaves the same memory
\* and the same file whether a failed validation is rolled back by loading
\* the file again or by putting the prior field values back.
C30_ReloadEqualsSnapshot ==
    /\ \A hotel_id \in HotelIds, kwargs \in HotelKwargs :
           modify_hotel(HM, hotel_id, kwargs) = modify_hotel_snapshot(HM, hotel_id, kwargs)
    /\ \A customer_id \in CustomerIds, kwargs \in CustomerKwargs :
           modify_customer(CM, customer_id, kwargs)
               = modify_customer_snapshot(CM, customer_id, kwargs)

\* a modify_hotel has just failed validation on a hotel with a room taken,
\* another hotel being registered
C30_Witness ==
    /\ Ran("modify_hotel")
    /\ last.ret = "None"
    /\ Has(last.pre.hotels, "hotel_id", last.args.hotel_id)
    /\ HotelIn(hotels, last.args.hotel_id).rooms_available
           < HotelIn(hotels, last.args.hotel_id).total_rooms
    /\ Len(hotels) = 2

\* C31: once the managers are constructed, no record of the hotels file whose
\* rooms_available is below 0 has become a registered hotel.
C31_NegativeAvailableSkipped ==
    (Ran("main") /\ last.ret = "None") =>
        \A i \in 1..Len(load_json(hotelsFile)) :
            LET rec == load_json(hotelsFile)[i]
            IN (/\ IsDict(rec)
                /\ "rooms_available" \in DOMAIN rec
                /\ rec.rooms_available < 0) => ~Has(hotels, "hotel_id", rec.hotel_id)

\* the operations of C32, each aimed at one hotel
OneHotelOps ==
    {"modify_hotel", "reserve_room", "cancel_room", "delete_hotel",
     "create_reservation", "cancel_reservation"}

\* the hotel an operation of C32 was aimed at: the one named in the call, or
\* the hotel of the reservation a cancel_reservation named ("" when there is
\* no such reservation)
TargetHotel ==
    IF Ran("cancel_reservation")
    THEN IF Has(last.pre.reservations, "reservation_id", last.args.reservation_id)
         THEN Get(last.pre.reservations, "reservation_id",
                  last.args.reservation_id).hotel_id
         ELSE ""
    ELSE last.args.hotel_id

\* C32: modify_hotel (applied, refused or rolled back), reserve_room,
\* cancel_room, delete_hotel, create_reservation and cancel_reservation leave
\* every hotel other than the targeted one as it was, in the same order, in
\* memory and in the hotels file.
C32_OtherHotelsUnchanged ==
    (last.op \in OneHotelOps) =>
        /\ OtherHotels(hotels, TargetHotel) = OtherHotels(last.pre.hotels, TargetHotel)
        /\ OtherHotels(load_json(hotelsFile), TargetHotel)
             = OtherHotels(load_json(last.pre.hotelsFile), TargetHotel)

\* one of two hotels was changed or removed by such an operation, in memory
\* and in the file, while the other one had a room taken before
C32_Witness ==
    /\ last.op \in OneHotelOps
    /\ Len(last.pre.hotels) = 2
    /\ hotels # last.pre.hotels
    /\ hotelsFile # last.pre.hotelsFile
    /\ \E h \in Range(OtherHotels(hotels, TargetHotel)) :
           h.rooms_available < h.total_rooms

\* a modify_hotel was rolled back while another hotel was registered
C32_WitnessRollback ==
    /\ Ran("modify_hotel")
    /\ last.ret = "None"
    /\ Has(last.pre.hotels, "hotel_id", last.args.hotel_id)
    /\ OtherHotels(hotels, TargetHotel) # <<>>

\* the records of a file that the load left out: no entity of `mem` has their
\* identifier
SkippedRecords(file, mem, kf) ==
    {rec \in Range(load_json(file)) : ~Has(mem, kf, rec[kf])}

\* C33: in a session on data files found at start, every manager call that
\* changes a collection or its file leaves the file a list of exactly the
\* entities in memory, so a record the load skipped, and the contents of a
\* file the load found corrupt, are gone from the file after that call.
C33_SaveDropsSkippedRecords ==
    (last.op \notin {"start", "main", "idle"}) =>
        /\ (hotels # last.pre.hotels \/ hotelsFile # last.pre.hotelsFile) =>
              /\ hotelsFile = HotelManager_save(HM).file
              /\ SkippedRecords(last.pre.hotelsFile, last.pre.hotels, "hotel_id")
                   \cap Range(load_json(hotelsFile)) = {}
        /\ (customers # last.pre.customers \/ customersFile # last.pre.customersFile) =>
              /\ customersFile = CustomerManager_save(CM).file
              /\ SkippedRecords(last.pre.customersFile, last.pre.customers, "customer_id")
                   \cap Range(load_json(customersFile)) = {}
        /\ (reservations # last.pre.reservations
              \/ reservationsFile # last.pre.reservationsFile) =>
              /\ reservationsFile = ReservationManager_save(RM).file
              /\ SkippedRecords(last.pre.reservationsFile, last.pre.reservations,
                                "reservation_id")
                   \cap Range(load_json(reservationsFile)) = {}

\* a call rewrote a hotels file that held a record the load had skipped
C33_Witness ==
    /\ last.op \notin {"start", "main", "idle"}
    /\ SkippedRecords(last.pre.hotelsFile, last.pre.hotels, "hotel_id") # {}
    /\ hotelsFile # last.pre.hotelsFile
    /\ hotels # <<>>

\* a call rewrote a customers file that held a record the load had skipped
C33_WitnessCustomers ==
    /\ last.op \notin {"start", "main", "idle"}
    /\ SkippedRecords(last.pre.customersFile, last.pre.customers, "customer_id") # {}
    /\ customersFile # last.pre.customersFile

\* a reservation was stored over a reservations file the load found corrupt
C33_WitnessCorrupt ==
    /\ Ran("create_reservation")
    /\ last.pre.reservationsFile = CorruptFile
    /\ reservationsFile.kind = "list"
    /\ Len(reservations) = 1

====
